---- MODULE Spec2Model ----
(***************************************************************************)
(* A model of the Room Lens mapping core: roomlens/mapping.py (transform   *)
(* resolution, validation, feature resolution, axis mapping) and           *)
(* roomlens/pipeline.py (MappingPipeline).                                 *)
(*                                                                         *)
(* Representation.                                                         *)
(*  - A Python dict is a sequence of [name, cfg] entries with distinct     *)
(*    names, in insertion order.  d.get(k, default) is modelled with a     *)
(*    "has" flag beside the value.                                         *)
(*  - A float is a fixed-point integer, Unit steps to 1.0.                 *)
(*  - An exception is the err field of a result: "ok", "ValueError",       *)
(*    "TypeError".                                                         *)
(***************************************************************************)
EXTENDS Integers, Sequences, FiniteSets, TLC

VARIABLES
    vcall,      \* the last validate_mapping_axes call and its outcome
    rcall,      \* the last _resolve_feature_value call and its outcome
    acall,      \* the last apply_mapping call and its outcome
    tcall,      \* the last _resolve_transform call and its outcome
    cache,      \* _TRANSFORM_CACHE: spec string -> transform
    pipeline,   \* the MappingPipeline object
    pcall,      \* the last MappingPipeline call and its outcome
    threads,    \* the threads running concurrently: their positions and locals
    hcall,      \* the last call of the host's apply_mapping and its outcome
    osc,        \* the last emit_osc call: its outcome and the messages it sent
    capture,    \* a capture_stream call: its position, the disk and the input
    host        \* the host's main: its arguments, serial handle and frames

vars == <<vcall, rcall, acall, tcall, cache, pipeline, pcall, threads,
          hcall, osc, capture, host>>

(***************************************************************************)
(* Bounds of the model.                                                    *)
(***************************************************************************)
MaxSensors == 2
MaxFeatures == 2
\* The most keys a frame of the resolver specification holds.
MaxFrameKeys == 4

\* How many update_mapping calls and process_frame passes a concurrent run makes.
MaxSwaps == 2
MaxPasses == 1

\* Fixed-point resolution: the integer that stands for 1.0.
Unit == 1000

(***************************************************************************)
(* Sequence helpers.                                                       *)
(***************************************************************************)
Range(s) == {s[i] : i \in DOMAIN s}

\* Sequences over S of length 0..n without repeated elements.
RECURSIVE DistinctSeqs(_, _)
DistinctSeqs(S, n) ==
    IF n = 0 \/ S = {} THEN {<<>>}
    ELSE {<<>>} \cup
         UNION {{<<x>> \o t : t \in DistinctSeqs(S \ {x}, n - 1)} : x \in S}

\* Python's sequence comparison (str.__lt__ on code points).
RECURSIVE LexLess(_, _)
LexLess(a, b) ==
    IF a = <<>> THEN b # <<>>
    ELSE IF b = <<>> THEN FALSE
    ELSE IF Head(a) # Head(b) THEN Head(a) < Head(b)
    ELSE LexLess(Tail(a), Tail(b))

\* The code points of the names the model uses.
CodePoints(s) ==
    CASE s = "mic"    -> <<109, 105, 99>>
      [] s = "tof"    -> <<116, 111, 102>>
      [] s = "motion" -> <<109, 111, 116, 105, 111, 110>>
      [] s = "lidar"  -> <<108, 105, 100, 97, 114>>
      [] s = "rms"    -> <<114, 109, 115>>
      [] s = "burst"  -> <<98, 117, 114, 115, 116>>
      [] s = "spectral_centroid" ->
            <<115, 112, 101, 99, 116, 114, 97, 108, 95, 99, 101, 110, 116, 114,
              111, 105, 100>>
      [] s = "mic-2"  -> <<109, 105, 99, 45, 50>>
      [] s = "mic2"   -> <<109, 105, 99, 50>>
      [] s = "level"  -> <<108, 101, 118, 101, 108>>
      [] s = "gain"   -> <<103, 97, 105, 110>>
      [] s = "gain_hi" -> <<103, 97, 105, 110, 95, 104, 105>>
      [] s = "tone"   -> <<116, 111, 110, 101>>
      [] s = "Bass"   -> <<66, 97, 115, 115>>
      [] OTHER        -> <<>>

(***************************************************************************)
(* Configuration shapes.                                                   *)
(***************************************************************************)
NoRange == [has |-> FALSE, isList |-> FALSE, items |-> <<>>]

\* map_to of a feature: absent, present without axis, or present with one.
MapTo(hasMapTo, hasAxis, axis, range) ==
    [has |-> hasMapTo, hasAxis |-> hasAxis, axis |-> axis, range |-> range]

NoSource == [kind |-> "none", text |-> <<>>, items |-> <<>>]

Feature(frame_key, source, transform, map_to) ==
    [frame_key |-> frame_key, source |-> source,
     transform |-> transform, map_to |-> map_to]

\* feature_cfg.get("map_to", {}).get("axis"): "" stands for a falsy result.
AxisOf(feature_cfg) ==
    IF feature_cfg.map_to.has /\ feature_cfg.map_to.hasAxis
    THEN feature_cfg.map_to.axis
    ELSE ""

\* mapping.get("sensors", {})
SensorsOf(mapping) == IF mapping.hasSensors THEN mapping.sensors ELSE <<>>

\* sensor_cfg.get("features", {})
FeaturesOf(sensor_cfg) ==
    IF sensor_cfg.hasFeatures THEN sensor_cfg.features ELSE <<>>

(***************************************************************************)
(* validate_mapping_axes                                                   *)
(***************************************************************************)
\* f"{sensor_name}.{feature_name}", with the code points sorted() compares.
DottedName(sensor_name, feature_name) ==
    [text |-> sensor_name \o "." \o feature_name,
     code |-> CodePoints(sensor_name) \o <<46>> \o CodePoints(feature_name)]

\* The inner loop: one sensor's features, in order.
RECURSIVE MissingInFeatures(_, _)
MissingInFeatures(sensor_name, features) ==
    IF features = <<>> THEN <<>>
    ELSE (IF AxisOf(Head(features).cfg) = ""
          THEN <<DottedName(sensor_name, Head(features).name)>>
          ELSE <<>>)
         \o MissingInFeatures(sensor_name, Tail(features))

\* The outer loop: every sensor, whatever its enabled flag.
RECURSIVE MissingInEnabledSensors(_)
MissingInEnabledSensors(sensors) ==
    IF sensors = <<>> THEN <<>>
    ELSE (IF Head(sensors).cfg.enabled = "yes"
          THEN MissingInFeatures(Head(sensors).name,
                                 FeaturesOf(Head(sensors).cfg))
          ELSE <<>>)
         \o MissingInEnabledSensors(Tail(sensors))

RECURSIVE MissingInSensors(_)
MissingInSensors(sensors) ==
    IF sensors = <<>> THEN <<>>
    ELSE MissingInFeatures(Head(sensors).name, FeaturesOf(Head(sensors).cfg))
         \o MissingInSensors(Tail(sensors))

\* sorted(missing)
RECURSIVE InsertSorted(_, _)
InsertSorted(x, s) ==
    IF s = <<>> THEN <<x>>
    ELSE IF LexLess(x.code, Head(s).code) THEN <<x>> \o s
    ELSE <<Head(s)>> \o InsertSorted(x, Tail(s))

RECURSIVE Sorted(_)
Sorted(s) == IF s = <<>> THEN <<>> ELSE InsertSorted(Head(s), Sorted(Tail(s)))

validate_mapping_axes(mapping) ==
    LET missing == MissingInSensors(SensorsOf(mapping))
    IN  IF missing # <<>>
        THEN [err |-> "ValueError", names |-> Sorted(missing)]
        ELSE [err |-> "ok", names |-> <<>>]

(***************************************************************************)
(* Frames.  A frame is a function from the keys it holds to their values.  *)
(***************************************************************************)
\* frame.get(key, default)
FrameGet(frame, key, default) ==
    IF key \in DOMAIN frame THEN frame[key] ELSE default

(***************************************************************************)
(* The source field.  A string source is a sequence of tokens: "|", " "    *)
(* (whitespace) or a run of other characters; a list source is a sequence  *)
(* of items, each a string or not.                                         *)
(***************************************************************************)
StrSource(text) == [kind |-> "str", text |-> text, items |-> <<>>]
ListSource(items) == [kind |-> "list", text |-> <<>>, items |-> items]
StrItem(s) == [isStr |-> TRUE, s |-> s]
NumItem == [isStr |-> FALSE, s |-> ""]

\* source.split("|")
RECURSIVE SplitBar(_)
SplitBar(text) ==
    IF text = <<>> THEN << <<>> >>
    ELSE IF Head(text) = "|" THEN << <<>> >> \o SplitBar(Tail(text))
    ELSE LET rest == SplitBar(Tail(text))
         IN  << <<Head(text)>> \o Head(rest) >> \o Tail(rest)

\* part.strip()
RECURSIVE StripLeft(_)
StripLeft(part) ==
    IF part # <<>> /\ Head(part) = " " THEN StripLeft(Tail(part)) ELSE part

RECURSIVE StripRight(_)
StripRight(part) ==
    IF part # <<>> /\ part[Len(part)] = " "
    THEN StripRight(SubSeq(part, 1, Len(part) - 1))
    ELSE part

Strip(part) == StripRight(StripLeft(part))

\* The string a token sequence spells.
RECURSIVE JoinTokens(_)
JoinTokens(part) ==
    IF part = <<>> THEN "" ELSE Head(part) \o JoinTokens(Tail(part))

\* [part.strip() for part in parts if part.strip()]
RECURSIVE StrippedParts(_)
StrippedParts(parts) ==
    IF parts = <<>> THEN <<>>
    ELSE (IF Strip(Head(parts)) # <<>>
          THEN <<JoinTokens(Strip(Head(parts)))>>
          ELSE <<>>)
         \o StrippedParts(Tail(parts))

\* The candidate keys of a non-empty string source.
StrCandidates(text) ==
    LET candidates == StrippedParts(SplitBar(text))
    IN  IF candidates = <<>> THEN <<JoinTokens(text)>> ELSE candidates

\* The candidate keys of a list source: the non-strings are skipped.
RECURSIVE ListCandidates(_)
ListCandidates(items) ==
    IF items = <<>> THEN <<>>
    ELSE (IF Head(items).isStr THEN <<Head(items).s>> ELSE <<>>)
         \o ListCandidates(Tail(items))

\* for candidate in candidates: if candidate in frame: return ...
RECURSIVE LastPresent(_, _)
LastPresent(candidates, frame) ==
    IF candidates = <<>> THEN [found |-> FALSE, value |-> 0]
    ELSE IF candidates[Len(candidates)] \in DOMAIN frame
    THEN [found |-> TRUE, value |-> frame[candidates[Len(candidates)]]]
    ELSE LastPresent(SubSeq(candidates, 1, Len(candidates) - 1), frame)

RECURSIVE FirstPresent(_, _)
FirstPresent(candidates, frame) ==
    IF candidates = <<>> THEN [found |-> FALSE, value |-> 0]
    ELSE IF Head(candidates) \in DOMAIN frame
    THEN [found |-> TRUE, value |-> frame[Head(candidates)]]
    ELSE FirstPresent(Tail(candidates), frame)

(***************************************************************************)
(* _DEFAULT_RESOLVERS: the key chain each built-in resolver reads, first   *)
(* present key first.  motion.burst reads the truth value of "motion".     *)
(***************************************************************************)
DefaultResolverPairs ==
    {<<"mic", "rms">>, <<"mic", "spectral_centroid">>, <<"mic", "hf_rolloff">>,
     <<"tof", "motion_energy">>, <<"tof", "proximity">>, <<"light", "lux">>,
     <<"light", "flicker_hz">>, <<"motion", "burst">>, <<"climate", "drift">>,
     <<"presence", "count">>}

NoDefaultResolver(sensor_name, feature_name) == FALSE

HasDefaultResolver(sensor_name, feature_name) ==
    <<sensor_name, feature_name>> \in DefaultResolverPairs

DefaultResolverKeys(sensor_name, feature_name) ==
    LET p == <<sensor_name, feature_name>>
    IN  CASE p = <<"mic", "rms">>               -> <<"mic_rms">>
          [] p = <<"mic", "spectral_centroid">> -> <<"mic_sc", "mic_centroid">>
          [] p = <<"mic", "hf_rolloff">>        -> <<"mic_hf", "hf", "mic_sc">>
          [] p = <<"tof", "motion_energy">>     -> <<"tof_motion">>
          [] p = <<"tof", "proximity">>         -> <<"tof_near">>
          [] p = <<"light", "lux">>             -> <<"lux">>
          [] p = <<"light", "flicker_hz">>      -> <<"flicker">>
          [] p = <<"climate", "drift">>         -> <<"climate_drift">>
          [] p = <<"presence", "count">>        -> <<"presence_count", "count">>
          [] OTHER                              -> <<>>

\* resolver(frame)
DefaultResolve(sensor_name, feature_name, frame) ==
    IF <<sensor_name, feature_name>> = <<"motion", "burst">>
    THEN (IF FrameGet(frame, "motion", 0) # 0 THEN Unit ELSE 0)
    ELSE FirstPresent(DefaultResolverKeys(sensor_name, feature_name), frame).value

(***************************************************************************)
(* _resolve_feature_value                                                  *)
(***************************************************************************)
\* The source candidates of a feature; none when source is absent or empty.
SourceCandidates(source) ==
    IF source.kind = "str" /\ source.text # <<>> THEN StrCandidates(source.text)
    ELSE IF source.kind = "list" THEN ListCandidates(source.items)
    ELSE <<>>

\* What follows the source step: the resolver table, then the naming
\* heuristics.
ResolveFallback(sensor_name, feature_name, frame) ==
    LET compound_key == sensor_name \o "_" \o feature_name
    IN  IF HasDefaultResolver(sensor_name, feature_name)
        THEN DefaultResolve(sensor_name, feature_name, frame)
        ELSE IF compound_key \in DOMAIN frame THEN frame[compound_key]
        ELSE FrameGet(frame, feature_name, 0)

resolve_source_before_frame_key(sensor_name, feature_name, feature_cfg, frame) ==
    LET hit == FirstPresent(SourceCandidates(feature_cfg.source), frame)
    IN  IF hit.found THEN hit.value
        ELSE IF feature_cfg.frame_key # ""
        THEN FrameGet(frame, feature_cfg.frame_key, 0)
        ELSE ResolveFallback(sensor_name, feature_name, frame)

_resolve_feature_value(sensor_name, feature_name, feature_cfg, frame) ==
    IF feature_cfg.frame_key # ""
    THEN FrameGet(frame, feature_cfg.frame_key, 0)
    ELSE LET hit == FirstPresent(SourceCandidates(feature_cfg.source), frame)
         IN  IF hit.found THEN hit.value
             ELSE ResolveFallback(sensor_name, feature_name, frame)

(***************************************************************************)
(* Basic math helpers, in fixed point.                                     *)
(***************************************************************************)
clamp01_unclamped(x) == x

clamp01(x) == IF x < 0 THEN 0 ELSE IF x > Unit THEN Unit ELSE x

\* a + (b - a) * t
lerp(a, b, t) == a + ((b - a) * t) \div Unit

\* The product of two fixed-point numbers.
Mul(a, b) == (a * b) \div Unit

\* t ** n for a whole exponent n >= 1.
RECURSIVE Pow(_, _)
Pow(t, n) == IF n <= 1 THEN t ELSE Mul(t, Pow(t, n - 1))

Max(a, b) == IF a >= b THEN a ELSE b

\* 10 ** (n / 20) for n = 0..19, in thousandths.
TwentiethRoots ==
    <<1000, 1122, 1259, 1413, 1585, 1778, 1995, 2239, 2512, 2818,
      3162, 3548, 3981, 4467, 5012, 5623, 6310, 7079, 7943, 8913>>

\* 20 * math.log10(x) for x > 0, rounded down to a whole decibel.
RECURSIVE Decibels(_)
Decibels(x) ==
    IF x < Unit THEN Decibels(x * 10) - 20 * Unit
    ELSE IF x >= 10 * Unit THEN Decibels(x \div 10) + 20 * Unit
    ELSE (Cardinality({n \in 1..20 : (TwentiethRoots[n] * Unit) \div 1000 <= x}) - 1)
         * Unit

\* The Taylor sum of e ** y for 0 <= y <= 1, from term number n on.
RECURSIVE ExpTerms(_, _, _)
ExpTerms(y, term, n) ==
    IF term = 0 \/ n > 12 THEN 0
    ELSE term + ExpTerms(y, (term * y) \div (Unit * n), n + 1)

\* math.exp(-y) for y >= 0.
RECURSIVE ExpNeg(_)
ExpNeg(y) ==
    IF y > 16 * Unit THEN 0
    ELSE IF y > Unit THEN Mul(ExpNeg(y \div 2), ExpNeg(y - y \div 2))
    ELSE (Unit * Unit) \div ExpTerms(y, Unit, 1)

(***************************************************************************)
(* Transforms.  A transform is the record of its kind and its parameters;  *)
(* ApplyTransform is the call of its closure.                              *)
(***************************************************************************)
Tf(kind, a, b, centers) == [kind |-> kind, a |-> a, b |-> b, centers |-> centers]

_identity == Tf("identity", 0, 0, <<>>)
Clamp01Tf == Tf("clamp01", 0, 0, <<>>)

\* log10_clamp's _inner
Log10ClampInner(floor_db, x) ==
    IF x <= 0 THEN 0
    ELSE clamp01(((Decibels(x) - floor_db) * Unit) \div Max(-floor_db, 1))

\* softclip's _inner; the slope is a whole number of units.
SoftclipInnerUnscaled(threshold, slope, x0) ==
    LET x == clamp01(x0)
    IN  IF x <= threshold \/ threshold >= Unit THEN x
        ELSE LET t == ((x - threshold) * Unit) \div (Unit - threshold)
                 eased == Pow(t, slope \div Unit)
             IN  clamp01(threshold + eased)

SoftclipInner(threshold, slope, x0) ==
    LET x == clamp01(x0)
    IN  IF x <= threshold \/ threshold >= Unit THEN x
        ELSE LET t == ((x - threshold) * Unit) \div (Unit - threshold)
                 eased == Pow(t, slope \div Unit)
             IN  clamp01(threshold + Mul(Unit - threshold, eased))

\* inverse_exp's per-centre score
CentreScoreDecay(centre, k, x) ==
    IF x >= centre THEN 0
    ELSE ExpNeg(Mul(k, ((centre - x) * Unit) \div centre))

CentreScore(centre, k, x) ==
    IF x >= centre THEN 0
    ELSE Unit - ExpNeg(Mul(k, ((centre - x) * Unit) \div centre))

RECURSIVE SumScores(_, _, _)
SumScores(centers, k, x) ==
    IF centers = <<>> THEN 0
    ELSE CentreScore(Head(centers), k, x) + SumScores(Tail(centers), k, x)

InverseExpInner(centers, k, x) ==
    clamp01(SumScores(centers, k, x) \div Len(centers))

\* transform(raw_value)
ApplyTransform(tf, x) ==
    CASE tf.kind = "identity"    -> x
      [] tf.kind = "clamp01"     -> clamp01(x)
      [] tf.kind = "log10_clamp" -> Log10ClampInner(tf.a, x)
      [] tf.kind = "softclip"    -> SoftclipInner(tf.a, tf.b, x)
      [] tf.kind = "inverse_exp" -> InverseExpInner(tf.centers, tf.b, x)

(***************************************************************************)
(* Literals of a transform specification (ast.literal_eval results).       *)
(***************************************************************************)
NumLit(n) == [t |-> "num", n |-> n, items |-> <<>>]
ListLit(items) == [t |-> "list", n |-> 0, items |-> items]
StrLit == [t |-> "str", n |-> 0, items |-> <<>>]
Kw(arg, value) == [arg |-> arg, value |-> value]

\* float(v): "ok", or the exception it raises.
FloatErr(v) ==
    CASE v.t = "num"  -> "ok"
      [] v.t = "str"  -> "ValueError"
      [] v.t = "list" -> "TypeError"

KwNames(kwargs) == {kwargs[i].arg : i \in DOMAIN kwargs}
KwHas(kwargs, name) == name \in KwNames(kwargs)
KwGet(kwargs, name, default) ==
    IF KwHas(kwargs, name)
    THEN (CHOOSE kw \in Range(kwargs) : kw.arg = name).value
    ELSE default

\* The first exception of a sequence of steps, "ok" when there is none.
RECURSIVE FirstErr(_)
FirstErr(errs) ==
    IF errs = <<>> THEN "ok"
    ELSE IF Head(errs) # "ok" THEN Head(errs)
    ELSE FirstErr(Tail(errs))

Built(tf) == [err |-> "ok", tf |-> tf]
Raised(err) == [err |-> err, tf |-> _identity]

(***************************************************************************)
(* _TRANSFORM_FACTORIES                                                    *)
(***************************************************************************)
\* lambda: _identity, lambda: clamp01
NoArgFactory(tf, args, kwargs) ==
    IF args # <<>> \/ kwargs # <<>> THEN Raised("TypeError") ELSE Built(tf)

\* log10_clamp(*, floor_db=-60.0)
log10_clamp(args, kwargs) ==
    IF args # <<>> \/ ~(KwNames(kwargs) \subseteq {"floor_db"})
    THEN Raised("TypeError")
    ELSE LET floor_db == KwGet(kwargs, "floor_db", NumLit(-60 * Unit))
         IN  IF FloatErr(floor_db) # "ok" THEN Raised(FloatErr(floor_db))
             ELSE Built(Tf("log10_clamp", floor_db.n, 0, <<>>))

\* softclip(threshold=0.8, *, slope=4.0)
softclip(args, kwargs) ==
    IF \/ Len(args) > 1
       \/ ~(KwNames(kwargs) \subseteq {"threshold", "slope"})
       \/ (Len(args) = 1 /\ KwHas(kwargs, "threshold"))
    THEN Raised("TypeError")
    ELSE LET threshold == IF Len(args) = 1 THEN args[1]
                          ELSE KwGet(kwargs, "threshold", NumLit((8 * Unit) \div 10))
             slope == KwGet(kwargs, "slope", NumLit(4 * Unit))
             err == FirstErr(<<FloatErr(threshold), FloatErr(slope)>>)
         IN  IF err # "ok" THEN Raised(err)
             ELSE Built(Tf("softclip", clamp01(threshold.n), Max(slope.n, Unit), <<>>))

\* [float(c) for c in centers if float(c) > 0.0]
RECURSIVE PositiveCentres(_)
PositiveCentres(items) ==
    IF items = <<>> THEN <<>>
    ELSE (IF Head(items) > 0 THEN <<Head(items)>> ELSE <<>>)
         \o PositiveCentres(Tail(items))

\* inverse_exp(*, centers, k=1.0)
inverse_exp(args, kwargs) ==
    IF \/ args # <<>>
       \/ ~(KwNames(kwargs) \subseteq {"centers", "k"})
       \/ ~KwHas(kwargs, "centers")
    THEN Raised("TypeError")
    ELSE LET c == KwGet(kwargs, "centers", ListLit(<<>>))
             k == KwGet(kwargs, "k", NumLit(Unit))
             \* iterating a non-empty str or a non-zero number
             cerr == CASE c.t = "list" -> "ok"
                       [] c.t = "num"  -> (IF c.n = 0 THEN "ok" ELSE "TypeError")
                       [] c.t = "str"  -> "ValueError"
             err == FirstErr(<<cerr, FloatErr(k)>>)
             kept == IF c.t = "list" THEN PositiveCentres(c.items) ELSE <<>>
         IN  IF err # "ok" THEN Raised(err)
             ELSE Built(Tf("inverse_exp", 0,
                           IF k.n <= 0 THEN Unit ELSE k.n,
                           IF kept = <<>> THEN <<Unit>> ELSE kept))

FactoryNames == {"log10_clamp", "inverse_exp", "softclip", "identity", "clamp01"}

\* factory(*args, **kwargs)
CallFactory(name, args, kwargs) ==
    CASE name = "log10_clamp" -> log10_clamp(args, kwargs)
      [] name = "inverse_exp" -> inverse_exp(args, kwargs)
      [] name = "softclip"    -> softclip(args, kwargs)
      [] name = "identity"    -> NoArgFactory(_identity, args, kwargs)
      [] name = "clamp01"     -> NoArgFactory(Clamp01Tf, args, kwargs)

(***************************************************************************)
(* _parse_transform_spec, on the specification strings of the model: what  *)
(* ast.parse and ast.literal_eval make of each.                            *)
(***************************************************************************)
Parsed(name, args, kwargs) ==
    [err |-> "ok", name |-> name, args |-> args, kwargs |-> kwargs]
ParseFails == [err |-> "ValueError", name |-> "", args |-> <<>>, kwargs |-> <<>>]

\* The specification strings of the model and what ast.parse and
\* ast.literal_eval make of each; a string outside the table does not parse.
TransformSpecTable ==
    {<<"identity",
       Parsed("identity", <<>>, <<>>)>>,
     <<"clamp01",
       Parsed("clamp01", <<>>, <<>>)>>,
     <<"log10_clamp",
       Parsed("log10_clamp", <<>>, <<>>)>>,
     <<"softclip",
       Parsed("softclip", <<>>, <<>>)>>,
     \* spec.strip()
     <<" softclip ",
       Parsed("softclip", <<>>, <<>>)>>,
     <<"softclip(threshold=0.5,slope=6)",
       Parsed("softclip", <<>>,
       <<Kw("threshold", NumLit(Unit \div 2)), Kw("slope", NumLit(6 * Unit))>>)>>,
     <<"softclip(0.5, slope=2)",
       Parsed("softclip", <<NumLit(Unit \div 2)>>, <<Kw("slope", NumLit(2 * Unit))>>)>>,
     <<"softclip(0, slope=3)",
       Parsed("softclip", <<NumLit(0)>>, <<Kw("slope", NumLit(3 * Unit))>>)>>,
     <<"softclip(0.25, slope=2)",
       Parsed("softclip", <<NumLit(Unit \div 4)>>, <<Kw("slope", NumLit(2 * Unit))>>)>>,
     <<"inverse_exp(centers=[50, 120], k=1.2)",
       Parsed("inverse_exp", <<>>,
       <<Kw("centers", ListLit(<<50 * Unit, 120 * Unit>>)),
       Kw("k", NumLit((12 * Unit) \div 10))>>)>>,
     <<"inverse_exp(centers=[2, 4], k=40)",
       Parsed("inverse_exp", <<>>,
       <<Kw("centers", ListLit(<<2 * Unit, 4 * Unit>>)),
       Kw("k", NumLit(40 * Unit))>>)>>,
     <<"inverse_exp(centers=[2, 4], k=1.2)",
       Parsed("inverse_exp", <<>>,
       <<Kw("centers", ListLit(<<2 * Unit, 4 * Unit>>)),
       Kw("k", NumLit((12 * Unit) \div 10))>>)>>,
     <<"inverse_exp(centers=[])",
       Parsed("inverse_exp", <<>>, <<Kw("centers", ListLit(<<>>))>>)>>,
     <<"inverse_exp",
       Parsed("inverse_exp", <<>>, <<>>)>>,
     <<"inverse_exp(k=2)",
       Parsed("inverse_exp", <<>>, <<Kw("k", NumLit(2 * Unit))>>)>>,
     <<"inverse_exp(centers=[1.0])",
       Parsed("inverse_exp", <<>>, <<Kw("centers", ListLit(<<Unit>>))>>)>>,
     <<"inverse_exp(centers=[-1, 0])",
       Parsed("inverse_exp", <<>>, <<Kw("centers", ListLit(<<-Unit, 0>>))>>)>>,
     <<"inverse_exp(centers=[], k=0)",
       Parsed("inverse_exp", <<>>,
       <<Kw("centers", ListLit(<<>>)), Kw("k", NumLit(0))>>)>>,
     <<"inverse_exp(centers=[2, 4], k=-3)",
       Parsed("inverse_exp", <<>>,
       <<Kw("centers", ListLit(<<2 * Unit, 4 * Unit>>)),
       Kw("k", NumLit(-3 * Unit))>>)>>,
     <<"identity(1)",
       Parsed("identity", <<NumLit(Unit)>>, <<>>)>>,
     <<"softclip(threshold='x')",
       Parsed("softclip", <<>>, <<Kw("threshold", StrLit)>>)>>,
     <<"not_a_real_transform",
       Parsed("not_a_real_transform", <<>>, <<>>)>>,
     \* "Empty transform spec", a SyntaxError, an expression that is no call
     <<"   ",
       ParseFails>>,
     <<"softclip(",
       ParseFails>>,
     <<"1 + 2",
       ParseFails>>}

ParsedOf(hits) ==
    IF hits = {} THEN ParseFails ELSE (CHOOSE e \in hits : TRUE)[2]

_parse_transform_spec(spec) ==
    ParsedOf({e \in TransformSpecTable : e[1] = spec})

(***************************************************************************)
(* _resolve_transform, on the cache it is given.  parses and builds count  *)
(* the calls of _parse_transform_spec and of a factory.                    *)
(***************************************************************************)
Resolved(err, tf, c, parses, builds) ==
    [err |-> err, tf |-> tf, cache |-> c, parses |-> parses, builds |-> builds]

\* _resolve_transform after the cache lookup missed: the factory's result
\* is stored under the specification string
ResolveMade(transform_spec, made, c) ==
    IF made.err # "ok"
    THEN Resolved(made.err, _identity, c, 1, 1)
    ELSE Resolved("ok", made.tf, (transform_spec :> made.tf) @@ c, 1, 1)

\* _resolve_transform after _parse_transform_spec returned
ResolveParsed(transform_spec, parsed, c) ==
    IF parsed.err # "ok" THEN Resolved(parsed.err, _identity, c, 1, 0)
    ELSE IF parsed.name \notin FactoryNames
    THEN Resolved("ValueError", _identity, c, 1, 0)
    ELSE ResolveMade(transform_spec,
                     CallFactory(parsed.name, parsed.args, parsed.kwargs), c)

resolve_transform_uncached(feature_cfg, c) ==
    LET transform_spec == feature_cfg.transform
    IN  IF transform_spec = "" THEN Resolved("ok", _identity, c, 0, 0)
        ELSE LET parsed == _parse_transform_spec(transform_spec)
             IN  IF parsed.err # "ok" THEN Resolved(parsed.err, _identity, c, 1, 0)
                 ELSE IF parsed.name \notin FactoryNames
                 THEN Resolved("ValueError", _identity, c, 1, 0)
                 ELSE LET made == CallFactory(parsed.name, parsed.args, parsed.kwargs)
                      IN  IF made.err # "ok"
                          THEN Resolved(made.err, _identity, c, 1, 1)
                          ELSE Resolved("ok", made.tf,
                                        (transform_spec :> made.tf) @@ c, 1, 1)

resolve_transform_unknown_as_identity(feature_cfg, c) ==
    LET transform_spec == feature_cfg.transform
    IN  IF transform_spec = "" THEN Resolved("ok", _identity, c, 0, 0)
        ELSE IF transform_spec \in DOMAIN c
        THEN Resolved("ok", c[transform_spec], c, 0, 0)
        ELSE LET parsed == _parse_transform_spec(transform_spec)
             IN  IF parsed.err # "ok" THEN Resolved(parsed.err, _identity, c, 1, 0)
                 ELSE IF parsed.name \notin FactoryNames
                 THEN Resolved("ok", _identity,
                               (transform_spec :> _identity) @@ c, 1, 0)
                 ELSE LET made == CallFactory(parsed.name, parsed.args, parsed.kwargs)
                      IN  IF made.err # "ok"
                          THEN Resolved(made.err, _identity, c, 1, 1)
                          ELSE Resolved("ok", made.tf,
                                        (transform_spec :> made.tf) @@ c, 1, 1)

_resolve_transform(feature_cfg, c) ==
    LET transform_spec == feature_cfg.transform
    IN  IF transform_spec = "" THEN Resolved("ok", _identity, c, 0, 0)
        ELSE IF transform_spec \in DOMAIN c
        THEN Resolved("ok", c[transform_spec], c, 0, 0)
        ELSE ResolveParsed(transform_spec, _parse_transform_spec(transform_spec), c)

(***************************************************************************)
(* _apply_single_feature.  The state st threaded through one apply_mapping *)
(* call holds the exception raised so far (err), the axes dict, the cache, *)
(* the parser and factory call counts, the log of axis writes and the log  *)
(* of processor calls.                                                     *)
(***************************************************************************)
RangeItem(t, n) == [t |-> t, n |-> n]
ListRange(items) == [has |-> TRUE, isList |-> TRUE, items |-> items]
ScalarRange == [has |-> TRUE, isList |-> FALSE, items |-> <<>>]
NumRange(lo, hi) == ListRange(<<RangeItem("num", lo), RangeItem("num", hi)>>)

\* float(rng[i])
RangeItemErr(item) ==
    CASE item.t = "num"  -> "ok"
      [] item.t = "str"  -> "ValueError"
      [] item.t = "none" -> "TypeError"

\* rng = map_to.get("range", [0.0, 1.0]) and the choice of lo, hi
RangeOf(map_to) ==
    LET rng == IF map_to.range.has THEN map_to.range ELSE NumRange(0, Unit)
    IN  IF rng.isList /\ Len(rng.items) = 2
        THEN [err |-> FirstErr(<<RangeItemErr(rng.items[1]), RangeItemErr(rng.items[2])>>),
              lo |-> rng.items[1].n, hi |-> rng.items[2].n]
        ELSE [err |-> "ok", lo |-> 0, hi |-> Unit]

\* axes[axis] = value
SetItemKeepFirst(d, key, value) == d @@ (key :> value)

SetItem(d, key, value) == (key :> value) @@ d

StartState(c) ==
    [err |-> "ok", axes |-> <<>>, cache |-> c, parses |-> 0, builds |-> 0,
     log |-> <<>>, calls |-> <<>>]

\* _apply_single_feature once the axis is known: transform(raw_value),
\* clamp01, the range, lerp and the write axes[axis] = value
WriteValue(sensor_name, feature_name, axis, raw_value, tf, rng, value, counted) ==
    IF rng.err # "ok" THEN [counted EXCEPT !.err = rng.err]
    ELSE [counted EXCEPT
            !.axes = SetItem(@, axis, value),
            !.log = Append(@, [sensor |-> sensor_name,
                               feature |-> feature_name,
                               axis |-> axis,
                               raw |-> raw_value,
                               tf |-> tf,
                               value |-> value])]

WriteTransformed(sensor_name, feature_name, axis, raw_value, tf, rng, t, counted) ==
    WriteValue(sensor_name, feature_name, axis, raw_value, tf, rng,
               lerp(rng.lo, rng.hi, t), counted)

WriteCounted(sensor_name, feature_name, axis, raw_value, found, rng, counted) ==
    IF found.err # "ok" THEN [counted EXCEPT !.err = found.err]
    ELSE WriteTransformed(sensor_name, feature_name, axis, raw_value, found.tf, rng,
                          clamp01(ApplyTransform(found.tf, raw_value)), counted)

WriteFeature(sensor_name, feature_name, axis, raw_value, found, rng, st) ==
    WriteCounted(sensor_name, feature_name, axis, raw_value, found, rng,
                 [st EXCEPT !.cache = found.cache,
                            !.parses = @ + found.parses,
                            !.builds = @ + found.builds])

apply_single_feature_skip_unresolved(sensor_name, feature_name, feature_cfg, frame, st) ==
    LET axis == AxisOf(feature_cfg)
        raw_value == _resolve_feature_value(sensor_name, feature_name,
                                            feature_cfg, frame)
    IN  IF st.err # "ok" \/ axis = "" \/ raw_value = 0 THEN st
        ELSE LET found == _resolve_transform(feature_cfg, st.cache)
                 counted == [st EXCEPT !.cache = found.cache,
                                       !.parses = @ + found.parses,
                                       !.builds = @ + found.builds]
             IN  IF found.err # "ok" THEN [counted EXCEPT !.err = found.err]
                 ELSE LET t == clamp01(ApplyTransform(found.tf, raw_value))
                          rng == RangeOf(feature_cfg.map_to)
                          value == lerp(rng.lo, rng.hi, t)
                      IN  IF rng.err # "ok" THEN [counted EXCEPT !.err = rng.err]
                          ELSE [counted EXCEPT
                                  !.axes = SetItem(@, axis, value),
                                  !.log = Append(@, [sensor |-> sensor_name,
                                                     feature |-> feature_name,
                                                     axis |-> axis,
                                                     raw |-> raw_value,
                                                     tf |-> found.tf,
                                                     value |-> value])]

apply_single_feature_resolve_first(sensor_name, feature_name, feature_cfg, frame, st) ==
    LET axis == AxisOf(feature_cfg)
    IN  IF st.err # "ok" THEN st
        ELSE LET raw_value == _resolve_feature_value(sensor_name, feature_name,
                                                     feature_cfg, frame)
                 found == _resolve_transform(feature_cfg, st.cache)
                 counted == [st EXCEPT !.cache = found.cache,
                                       !.parses = @ + found.parses,
                                       !.builds = @ + found.builds]
             IN  IF found.err # "ok" THEN [counted EXCEPT !.err = found.err]
                 ELSE IF axis = "" THEN counted
                 ELSE LET t == clamp01(ApplyTransform(found.tf, raw_value))
                          rng == RangeOf(feature_cfg.map_to)
                          value == lerp(rng.lo, rng.hi, t)
                      IN  IF rng.err # "ok" THEN [counted EXCEPT !.err = rng.err]
                          ELSE [counted EXCEPT
                                  !.axes = SetItem(@, axis, value),
                                  !.log = Append(@, [sensor |-> sensor_name,
                                                     feature |-> feature_name,
                                                     axis |-> axis,
                                                     raw |-> raw_value,
                                                     tf |-> found.tf,
                                                     value |-> value])]

_apply_single_feature(sensor_name, feature_name, feature_cfg, frame, st) ==
    IF st.err # "ok" \/ AxisOf(feature_cfg) = "" THEN st
    ELSE WriteFeature(sensor_name, feature_name, AxisOf(feature_cfg),
                      _resolve_feature_value(sensor_name, feature_name,
                                             feature_cfg, frame),
                      _resolve_transform(feature_cfg, st.cache),
                      RangeOf(feature_cfg.map_to), st)

(***************************************************************************)
(* _process_generic_sensor and apply_mapping                               *)
(***************************************************************************)
RECURSIVE ApplyFeatures(_, _, _, _)
ApplyFeatures(sensor_name, features, frame, st) ==
    IF features = <<>> THEN st
    ELSE ApplyFeatures(sensor_name, Tail(features), frame,
                       _apply_single_feature(sensor_name, Head(features).name,
                                             Head(features).cfg, frame, st))

_process_generic_sensor(sensor_name, frame, sensor_cfg, st) ==
    ApplyFeatures(sensor_name, FeaturesOf(sensor_cfg), frame,
                  [st EXCEPT !.calls = Append(@, [sensor |-> sensor_name,
                                                  by |-> "default"])])

\* A caller's processor: it writes one axis of its own (none when axis is "").
Override(axis, value) == [axis |-> axis, value |-> value]

\* processor(sensor_name, frame, sensor_cfg, axes) for a caller's processor
RunOverride(override, sensor_name, frame, sensor_cfg, st) ==
    [st EXCEPT
       !.calls = Append(@, [sensor |-> sensor_name, by |-> "override"]),
       !.axes = IF override.axis = "" THEN @
                ELSE SetItem(@, override.axis, override.value)]

CallOverrideThenDefault(override, sensor_name, frame, sensor_cfg, st) ==
    _process_generic_sensor(sensor_name, frame, sensor_cfg,
        RunOverride(override, sensor_name, frame, sensor_cfg, st))

CallOverride(override, sensor_name, frame, sensor_cfg, st) ==
    RunOverride(override, sensor_name, frame, sensor_cfg, st)

\* sensor_cfg.get("enabled", False)
IsEnabledAlways(sensor_cfg) == TRUE

IsEnabled(sensor_cfg) == sensor_cfg.enabled = "yes"

\* The sensor loop; processors maps sensor names to the caller's overrides.
RECURSIVE ApplySensors(_, _, _, _)
ApplySensors(sensors, frame, processors, st) ==
    IF sensors = <<>> \/ st.err # "ok" THEN st
    ELSE LET sensor_name == Head(sensors).name
             sensor_cfg == Head(sensors).cfg
         IN  ApplySensors(Tail(sensors), frame, processors,
               IF ~IsEnabled(sensor_cfg) THEN st
               ELSE IF sensor_name \in DOMAIN processors
               THEN CallOverride(processors[sensor_name], sensor_name, frame,
                                 sensor_cfg, st)
               ELSE _process_generic_sensor(sensor_name, frame, sensor_cfg, st))

apply_mapping(frame, mapping, processors, c) ==
    ApplySensors(SensorsOf(mapping), frame, processors, StartState(c))

(***************************************************************************)
(* Inputs of the validation specification: every mapping of at most        *)
(* MaxSensors sensors with at most MaxFeatures features each, every        *)
(* feature in one of the four map_to shapes.                               *)
(***************************************************************************)
ValSensorNames == {"mic", "tof"}
ValFeatureNames == {"rms", "burst"}
EnabledFlags == {"yes", "no", "absent"}

ValFeatureCfgs ==
    {Feature("", NoSource, "", MapTo(FALSE, FALSE, "", NoRange)),
     Feature("", NoSource, "", MapTo(TRUE, FALSE, "", NoRange)),
     Feature("", NoSource, "", MapTo(TRUE, TRUE, "", NoRange)),
     Feature("", NoSource, "", MapTo(TRUE, TRUE, "gain", NoRange))}

\* Ordered dicts over the names, every value drawn from cfgs.
Dicts(names, cfgs, n) ==
    UNION {{[i \in DOMAIN ns |-> [name |-> ns[i], cfg |-> c[i]]] :
                c \in [DOMAIN ns -> cfgs]} :
           ns \in DistinctSeqs(names, n)}

Sensor(enabled, hasFeatures, features) ==
    [enabled |-> enabled, hasFeatures |-> hasFeatures, features |-> features]

ValSensorCfgs ==
    {Sensor(e, TRUE, fs) :
        e \in {"yes", "no"},
        fs \in Dicts(ValFeatureNames, ValFeatureCfgs, MaxFeatures)}
    \cup {Sensor("absent", FALSE, <<>>)}

Mapping(hasSensors, sensors) == [hasSensors |-> hasSensors, sensors |-> sensors]

(***************************************************************************)
(* State before any call.                                                  *)
(***************************************************************************)
NoVCall == [op |-> "none", mapping |-> Mapping(FALSE, <<>>),
            err |-> "ok", names |-> <<>>]
NoRCall == [op |-> "none", sensor |-> "", feature |-> "",
            cfg |-> Feature("", NoSource, "", MapTo(FALSE, FALSE, "", NoRange)),
            frame |-> <<>>, value |-> 0]
NoACall == [op |-> "none", n |-> 0, frame |-> <<>>, mapping |-> Mapping(FALSE, <<>>),
            processors |-> <<>>, cacheBefore |-> <<>>, err |-> "ok",
            axes |-> <<>>, log |-> <<>>, calls |-> <<>>, parses |-> 0, builds |-> 0]
NoTCall == [op |-> "none", spec |-> "", cacheBefore |-> <<>>, err |-> "ok",
            tf |-> [kind |-> "identity", a |-> 0, b |-> 0, centers |-> <<>>],
            parses |-> 0, builds |-> 0]
\* No thread is running.
NoThreads == [kind |-> "none"]

\* No host call, no emit_osc call, no capture and no host process.
NoHCall == [op |-> "none", err |-> "ok", axes |-> <<>>]
NoCapture == [pc |-> "none"]
NoHost == [pc |-> "none"]

NoClient == [id |-> "None", received |-> <<>>]
NoPipeline == [exists |-> FALSE, mapping |-> Mapping(FALSE, <<>>), processors |-> <<>>,
               osc_address |-> "/roomlens", client |-> NoClient]
NoOsc == [op |-> "none", payload |-> [kind |-> "absent", axes |-> <<>>],
          before |-> NoPipeline, after |-> NoPipeline,
          returned |-> "none", sent |-> <<>>]
NoPCall == [op |-> "none", path |-> "", loaded |-> "none",
            doc |-> [isDict |-> FALSE, kind |-> "none", mapping |-> Mapping(FALSE, <<>>)],
            frame |-> <<>>, before |-> NoPipeline, after |-> NoPipeline, err |-> "ok",
            mapping |-> Mapping(FALSE, <<>>), axes |-> <<>>,
            t |-> [has |-> FALSE, v |-> 0]]

(***************************************************************************)
(* Specification of validation alone.                                      *)
(***************************************************************************)
InitValidate ==
    /\ \E hasSensors \in BOOLEAN :
       \E ns \in DistinctSeqs(ValSensorNames, MaxSensors) :
       \E c \in [DOMAIN ns -> ValSensorCfgs] :
          /\ hasSensors \/ ns = <<>>
          /\ vcall = [op |-> "pending",
                      mapping |-> Mapping(hasSensors,
                                          [i \in DOMAIN ns |->
                                             [name |-> ns[i], cfg |-> c[i]]]),
                      err |-> "ok", names |-> <<>>]
    /\ rcall = NoRCall
    /\ acall = NoACall
    /\ tcall = NoTCall
    /\ cache = <<>>
    /\ pipeline = NoPipeline
    /\ pcall = NoPCall
    /\ threads = NoThreads
    /\ hcall = NoHCall
    /\ osc = NoOsc
    /\ capture = NoCapture
    /\ host = NoHost

\* One call of validate_mapping_axes on the mapping drawn by Init.
ValidateCall ==
    /\ vcall.op = "pending"
    /\ LET r == validate_mapping_axes(vcall.mapping)
       IN  vcall' = [op |-> "validate", mapping |-> vcall.mapping,
                     err |-> r.err, names |-> r.names]
    /\ UNCHANGED <<hcall, osc, capture, host, threads, rcall, acall, tcall, cache, pipeline, pcall>>

NextValidate == ValidateCall

SpecValidate == InitValidate /\ [][NextValidate]_vars

(***************************************************************************)
(* C1.  validate_mapping_axes fails exactly when some feature of some      *)
(* sensor, enabled or not, has a missing or empty map_to.axis; its one     *)
(* error is a ValueError naming every such sensor.feature pair once and    *)
(* no other; with no such feature it returns without error.                *)
(***************************************************************************)
\* The sensor.feature pairs without an axis, read off the configuration.
Violators(mapping) ==
    IF ~mapping.hasSensors THEN {}
    ELSE {<<mapping.sensors[i].name, mapping.sensors[i].cfg.features[j].name>> :
            <<i, j>> \in
              {p \in (DOMAIN mapping.sensors) \X (1..MaxFeatures + 1) :
                 /\ mapping.sensors[p[1]].cfg.hasFeatures
                 /\ p[2] \in DOMAIN mapping.sensors[p[1]].cfg.features
                 /\ LET mt == mapping.sensors[p[1]].cfg.features[p[2]].cfg.map_to
                    IN  ~mt.has \/ ~mt.hasAxis \/ mt.axis = ""}}

C1_ValidateReportsAllViolators ==
    vcall.op = "validate" =>
        LET bad == Violators(vcall.mapping)
        IN  /\ vcall.err \in {"ok", "ValueError"}
            /\ (vcall.err = "ValueError") <=> (bad # {})
            /\ {vcall.names[i].text : i \in DOMAIN vcall.names}
                 = {p[1] \o "." \o p[2] : p \in bad}
            /\ Len(vcall.names) = Cardinality(bad)

\* A failure that names a feature of a disabled sensor beside one of an
\* enabled sensor.
C1_Witness ==
    /\ vcall.op = "validate"
    /\ vcall.err = "ValueError"
    /\ Len(vcall.names) = 2
    /\ \E i, j \in DOMAIN vcall.mapping.sensors :
          /\ vcall.mapping.sensors[i].cfg.enabled = "no"
          /\ vcall.mapping.sensors[j].cfg.enabled = "yes"
          /\ \E p, q \in Violators(vcall.mapping) :
                /\ p[1] = vcall.mapping.sensors[i].name
                /\ q[1] = vcall.mapping.sensors[j].name

(***************************************************************************)
(* Specification of _resolve_feature_value alone.  Init draws the sensor   *)
(* and feature names, the feature's frame_key and source, and a frame of   *)
(* at most MaxFrameKeys keys; every key has a value of its own.            *)
(***************************************************************************)
ResolvePairs ==
    {<<"mic", "rms">>, <<"mic", "spectral_centroid">>,
     <<"motion", "burst">>, <<"lidar", "level">>}

ResolveKeys ==
    {"fk", "primary", "fallback", "mic_rms", "mic_sc", "mic_centroid",
     "mic_spectral_centroid", "spectral_centroid", "motion",
     "lidar_level", "level"}

KeyValue(k) ==
    CASE k = "fk"                    -> 100
      [] k = "primary"               -> 200
      [] k = "fallback"              -> 300
      [] k = "mic_rms"               -> 400
      [] k = "mic_sc"                -> 500
      [] k = "mic_centroid"          -> 600
      [] k = "mic_spectral_centroid" -> 700
      [] k = "spectral_centroid"     -> 800
      [] k = "lidar_level"           -> 900
      [] k = "level"                 -> 1100
      [] OTHER                       -> 0

ResolveSources ==
    {NoSource,
     StrSource(<<>>),
     StrSource(<<"primary", "|", "fallback">>),
     StrSource(<<" ", "primary", " ", "|", "|", " ", "fallback", " ">>),
     ListSource(<<StrItem("primary"), StrItem("fallback")>>),
     ListSource(<<NumItem, StrItem("fallback"), StrItem("primary")>>)}

InitResolve ==
    /\ vcall = NoVCall
    /\ \E p \in ResolvePairs :
       \E fk \in {"", "fk"} :
       \E src \in ResolveSources :
       \E keys \in SUBSET ResolveKeys :
       \E motion \in {0, Unit} :
          /\ Cardinality(keys) <= MaxFrameKeys
          /\ ("motion" \notin keys) => (motion = 0)
          /\ rcall = [op |-> "pending", sensor |-> p[1], feature |-> p[2],
                      cfg |-> Feature(fk, src, "",
                                      MapTo(TRUE, TRUE, "gain", NoRange)),
                      frame |-> [k \in keys |->
                                   IF k = "motion" THEN motion ELSE KeyValue(k)],
                      value |-> 0]
    /\ acall = NoACall
    /\ tcall = NoTCall
    /\ cache = <<>>
    /\ pipeline = NoPipeline
    /\ pcall = NoPCall
    /\ threads = NoThreads
    /\ hcall = NoHCall
    /\ osc = NoOsc
    /\ capture = NoCapture
    /\ host = NoHost

\* One call of _resolve_feature_value on the inputs drawn by Init.
ResolveCall ==
    /\ rcall.op = "pending"
    /\ rcall' = [rcall EXCEPT
                   !.op = "resolved",
                   !.value = _resolve_feature_value(rcall.sensor, rcall.feature,
                                                    rcall.cfg, rcall.frame)]
    /\ UNCHANGED <<hcall, osc, capture, host, threads, vcall, acall, tcall, cache, pipeline, pcall>>

NextResolve == ResolveCall

SpecResolve == InitResolve /\ [][NextResolve]_vars

\* The candidate keys each source of ResolveSources declares, in order.
DeclaredCandidates(source) ==
    CASE source = StrSource(<<"primary", "|", "fallback">>)
            -> <<"primary", "fallback">>
      [] source = StrSource(<<" ", "primary", " ", "|", "|", " ", "fallback", " ">>)
            -> <<"primary", "fallback">>
      [] source = ListSource(<<StrItem("primary"), StrItem("fallback")>>)
            -> <<"primary", "fallback">>
      [] source = ListSource(<<NumItem, StrItem("fallback"), StrItem("primary")>>)
            -> <<"fallback", "primary">>
      [] OTHER -> <<>>

\* The result of the same call on the feature without its source.
ValueWithoutSource ==
    _resolve_feature_value(rcall.sensor, rcall.feature,
                           [rcall.cfg EXCEPT !.source = NoSource], rcall.frame)

(***************************************************************************)
(* C5.  A feature that sets frame_key reads exactly that key, 0.0 when the *)
(* frame lacks it, whatever source candidates, resolver keys, compound key *)
(* or bare feature key the frame holds.                                    *)
(***************************************************************************)
C5_FrameKeyWins ==
    (rcall.op = "resolved" /\ rcall.cfg.frame_key # "") =>
        rcall.value = (IF rcall.cfg.frame_key \in DOMAIN rcall.frame
                       THEN rcall.frame[rcall.cfg.frame_key]
                       ELSE 0)

\* frame_key is set and absent from a frame that holds a source candidate,
\* the resolver's key and the bare feature key: the value is 0.0.
C5_Witness ==
    /\ rcall.op = "resolved"
    /\ rcall.cfg.frame_key = "fk"
    /\ rcall.sensor = "mic" /\ rcall.feature = "spectral_centroid"
    /\ DeclaredCandidates(rcall.cfg.source) # <<>>
    /\ {"primary", "mic_sc", "spectral_centroid"} \subseteq DOMAIN rcall.frame
    /\ "fk" \notin DOMAIN rcall.frame
    /\ rcall.value = 0

(***************************************************************************)
(* C6.  Without frame_key, a source (string split on "|", or list) yields  *)
(* the frame value of its first candidate, in declared order, that the     *)
(* frame holds; when the frame holds none, the result is that of the       *)
(* resolver table and naming fallbacks, as if the feature had no source.   *)
(***************************************************************************)
C6_FirstSourceCandidateWins ==
    (rcall.op = "resolved" /\ rcall.cfg.frame_key = ""
        /\ DeclaredCandidates(rcall.cfg.source) # <<>>) =>
        LET cands == DeclaredCandidates(rcall.cfg.source)
            present == {i \in DOMAIN cands : cands[i] \in DOMAIN rcall.frame}
        IN  IF present # {}
            THEN \E i \in present :
                   /\ \A j \in present : i <= j
                   /\ rcall.value = rcall.frame[cands[i]]
            ELSE rcall.value = ValueWithoutSource

\* Both candidates are present and the first declared one is read; and a
\* source none of whose candidates is present falls through to a non-zero
\* resolver value.
C6_Witness ==
    /\ rcall.op = "resolved"
    /\ rcall.cfg.frame_key = ""
    /\ \/ /\ rcall.cfg.source =
               ListSource(<<NumItem, StrItem("fallback"), StrItem("primary")>>)
          /\ {"primary", "fallback", "mic_rms"} \subseteq DOMAIN rcall.frame
          /\ rcall.value = 300
       \/ /\ rcall.cfg.source = StrSource(<<"primary", "|", "fallback">>)
          /\ rcall.sensor = "mic" /\ rcall.feature = "rms"
          /\ DOMAIN rcall.frame = {"mic_rms", "fk"}
          /\ rcall.value = 400

(***************************************************************************)
(* C7.  With neither frame_key nor a present source candidate: a pair      *)
(* outside the resolver table reads the compound key, else the bare        *)
(* feature key, else 0.0; a pair in the table reads only its own key chain *)
(* (0.0 when none is present), whatever compound or bare key is present.   *)
(***************************************************************************)
C7_TableThenNamingFallback ==
    (rcall.op = "resolved" /\ rcall.cfg.frame_key = ""
        /\ \A i \in DOMAIN DeclaredCandidates(rcall.cfg.source) :
              DeclaredCandidates(rcall.cfg.source)[i] \notin DOMAIN rcall.frame) =>
        LET f == rcall.frame
            has(k) == k \in DOMAIN f
            p == <<rcall.sensor, rcall.feature>>
        IN  rcall.value =
              CASE p = <<"lidar", "level">> ->
                     (IF has("lidar_level") THEN f["lidar_level"]
                      ELSE IF has("level") THEN f["level"] ELSE 0)
                [] p = <<"mic", "spectral_centroid">> ->
                     (IF has("mic_sc") THEN f["mic_sc"]
                      ELSE IF has("mic_centroid") THEN f["mic_centroid"] ELSE 0)
                [] p = <<"mic", "rms">> ->
                     (IF has("mic_rms") THEN f["mic_rms"] ELSE 0)
                [] p = <<"motion", "burst">> ->
                     (IF has("motion") /\ f["motion"] # 0 THEN Unit ELSE 0)

\* A table pair yields 0.0 although its compound and bare keys are present;
\* or a pair outside the table reads its bare key.
C7_Witness ==
    /\ rcall.op = "resolved"
    /\ rcall.cfg.frame_key = ""
    /\ rcall.cfg.source = NoSource
    /\ \/ /\ rcall.sensor = "mic" /\ rcall.feature = "spectral_centroid"
          /\ DOMAIN rcall.frame = {"mic_spectral_centroid", "spectral_centroid"}
          /\ rcall.value = 0
       \/ /\ rcall.sensor = "lidar" /\ rcall.feature = "level"
          /\ DOMAIN rcall.frame = {"level", "mic_rms"}
          /\ rcall.value = 1100

(***************************************************************************)
(* Calls of apply_mapping.  acall holds the arguments, the cache the call  *)
(* found, and what the call did: the exception it raised (err), the axes   *)
(* it returned, its axis writes and processor calls in order, and how      *)
(* often it ran the parser and a factory.                                  *)
(***************************************************************************)
PendingApply(frame, mapping, processors) ==
    [NoACall EXCEPT !.op = "pending", !.frame = frame, !.mapping = mapping,
                    !.processors = processors]

\* apply_mapping(frame, mapping, processors=processors) on the current cache;
\* n numbers the call.
Applied(frame, mapping, processors, n, st) ==
    /\ acall' = [op |-> "applied", n |-> n, frame |-> frame,
                 mapping |-> mapping, processors |-> processors,
                 cacheBefore |-> cache, err |-> st.err,
                 axes |-> IF st.err = "ok" THEN st.axes ELSE <<>>,
                 log |-> st.log, calls |-> st.calls,
                 parses |-> st.parses, builds |-> st.builds]
    /\ cache' = st.cache

DoApply(frame, mapping, processors, n) ==
    Applied(frame, mapping, processors, n,
            apply_mapping(frame, mapping, processors, cache))

\* The configuration of a feature of the mapping.
SensorCfgOf(mapping, sensor_name) ==
    (CHOOSE e \in Range(SensorsOf(mapping)) : e.name = sensor_name).cfg

FeatureCfgOf(mapping, sensor_name, feature_name) ==
    (CHOOSE e \in Range(FeaturesOf(SensorCfgOf(mapping, sensor_name))) :
        e.name = feature_name).cfg

(***************************************************************************)
(* Specification of one feature.  Init draws a mapping of one sensor       *)
(* (lidar) with one feature (level), its transform, range and axis, and    *)
(* the raw value of the frame; apply_mapping then runs twice, first on the *)
(* empty cache and then on the cache the first call left.                  *)
(***************************************************************************)
FeatureTransforms ==
    {"", "identity", "clamp01", "log10_clamp", "softclip",
     "softclip(threshold=0.5,slope=6)", "softclip(0.5, slope=2)",
     "inverse_exp(centers=[2, 4], k=1.2)", "inverse_exp(centers=[])",
     "inverse_exp", "not_a_real_transform", "softclip("}

FeatureRanges ==
    {NoRange, NumRange(0, Unit), NumRange(2 * Unit, -Unit), NumRange(Unit, Unit),
     NumRange(-3 * Unit, 5 * Unit), ScalarRange,
     ListRange(<<RangeItem("num", Unit)>>),
     ListRange(<<RangeItem("num", 0), RangeItem("str", 0)>>),
     ListRange(<<RangeItem("none", 0), RangeItem("num", Unit)>>)}

RawValues ==
    {-2 * Unit, -1, 0, 1, Unit \div 3, Unit \div 2, (9 * Unit) \div 10,
     Unit - 1, Unit, Unit + 1, 3 * Unit, 100 * Unit}

InitFeature ==
    /\ vcall = NoVCall
    /\ rcall = NoRCall
    /\ \E tr \in FeatureTransforms :
       \E rng \in FeatureRanges :
       \E axis \in {"", "gain"} :
       \E enabled \in EnabledFlags :
       \E keys \in SUBSET {"lidar_level"} :
       \E raw \in RawValues :
          /\ (keys = {}) => (raw = 0)
          /\ acall = PendingApply(
                        [k \in keys |-> raw],
                        Mapping(TRUE,
                          <<[name |-> "lidar",
                             cfg |-> Sensor(enabled, TRUE,
                               <<[name |-> "level",
                                  cfg |-> Feature("", NoSource, tr,
                                            MapTo(TRUE, TRUE, axis, rng))]>>)]>>),
                        <<>>)
    /\ tcall = NoTCall
    /\ cache = <<>>
    /\ pipeline = NoPipeline
    /\ pcall = NoPCall
    /\ threads = NoThreads
    /\ hcall = NoHCall
    /\ osc = NoOsc
    /\ capture = NoCapture
    /\ host = NoHost

FeatureApply ==
    /\ acall.op \in {"pending", "applied"}
    /\ acall.n < 2
    /\ DoApply(acall.frame, acall.mapping, acall.processors, acall.n + 1)
    /\ UNCHANGED <<hcall, osc, capture, host, threads, vcall, rcall, tcall, pipeline, pcall>>

NextFeature == FeatureApply

SpecFeature == InitFeature /\ [][NextFeature]_vars

(***************************************************************************)
(* C4.  Every value apply_mapping writes for a feature with a two-element  *)
(* numeric range [lo, hi] is lo + (hi - lo) * clamp01(T(raw)), T being the *)
(* identity when the feature has no transform, and so lies between lo and  *)
(* hi inclusive, for reversed ranges and raw values outside [0, 1] too.    *)
(***************************************************************************)
HasNumericPair(range) ==
    /\ range.has /\ range.isList /\ Len(range.items) = 2
    /\ \A i \in 1..2 : range.items[i].t = "num"

ApplySensorNames == {"mic", "lidar"}
ApplyFeatureNames == {"rms", "level"}

ApplyFeatureCfgs ==
    {Feature("", NoSource, "", MapTo(TRUE, TRUE, "gain", NoRange)),
     Feature("", NoSource, "softclip(0.5, slope=2)",
             MapTo(TRUE, TRUE, "gain", NumRange(2 * Unit, -Unit))),
     Feature("fk", NoSource, "clamp01",
             MapTo(TRUE, TRUE, "tone", NumRange(0, 4 * Unit)))}

FullFrame ==
    [k \in {"mic_rms", "rms", "lidar_level", "level", "lidar_rms", "mic_level", "fk"} |->
        CASE k = "mic_rms"     -> 300
          [] k = "rms"         -> 600
          [] k = "lidar_level" -> 900
          [] k = "level"       -> 200
          [] k = "lidar_rms"   -> 450
          [] k = "mic_level"   -> 750
          [] k = "fk"          -> 700]

ApplyFrames == {FullFrame, <<>>}

ApplyProcessors ==
    {<<>>,
     [n \in {"mic"} |-> Override("extra", 7 * Unit)],
     [n \in {"lidar"} |-> Override("gain", 9 * Unit)],
     [n \in {"mic"} |-> Override("", 0)]}

InitApply ==
    /\ vcall = NoVCall
    /\ rcall = NoRCall
    /\ \E ns \in DistinctSeqs(ApplySensorNames, MaxSensors) :
       \E en \in [DOMAIN ns -> EnabledFlags] :
       \E fn \in [DOMAIN ns -> DistinctSeqs(ApplyFeatureNames, MaxFeatures)] :
       \E fc \in [DOMAIN ns -> [1..MaxFeatures -> ApplyFeatureCfgs]] :
       \E frame \in ApplyFrames :
       \E processors \in ApplyProcessors :
          /\ \A i \in DOMAIN ns : \A j \in 1..MaxFeatures :
                j > Len(fn[i]) => fc[i][j] = fc[i][1]
          /\ acall = PendingApply(
                        frame,
                        Mapping(TRUE,
                          [i \in DOMAIN ns |->
                             [name |-> ns[i],
                              cfg |-> Sensor(en[i], TRUE,
                                        [j \in DOMAIN fn[i] |->
                                           [name |-> fn[i][j],
                                            cfg |-> fc[i][j]]])]]),
                        processors)
    /\ tcall = NoTCall
    /\ cache = <<>>
    /\ pipeline = NoPipeline
    /\ pcall = NoPCall
    /\ threads = NoThreads
    /\ hcall = NoHCall
    /\ osc = NoOsc
    /\ capture = NoCapture
    /\ host = NoHost

ApplyCall ==
    /\ acall.op = "pending"
    /\ DoApply(acall.frame, acall.mapping, acall.processors, 1)
    /\ UNCHANGED <<hcall, osc, capture, host, threads, vcall, rcall, tcall, pipeline, pcall>>

NextApply == ApplyCall

SpecApply == InitApply /\ [][NextApply]_vars

\* The sensor blocks apply_mapping must treat as enabled.
EnabledSensorNames(mapping) ==
    {e.name : e \in {x \in Range(SensorsOf(mapping)) : x.cfg.enabled = "yes"}}

(***************************************************************************)
(* C3.  apply_mapping runs neither the default feature loop nor a caller's *)
(* processor for a sensor whose enabled flag is false, and writes no axis  *)
(* for any feature of such a sensor.                                       *)
(***************************************************************************)
C3_DisabledSensorsAreSkipped ==
    acall.op = "applied" =>
        /\ \A i \in DOMAIN acall.calls :
              SensorCfgOf(acall.mapping, acall.calls[i].sensor).enabled # "no"
        /\ \A i \in DOMAIN acall.log :
              SensorCfgOf(acall.mapping, acall.log[i].sensor).enabled # "no"

\* A disabled sensor with a feature and a caller's processor beside an
\* enabled sensor: the only call is the enabled sensor's.
C3_Witness ==
    /\ acall.op = "applied"
    /\ Len(SensorsOf(acall.mapping)) = 2
    /\ \E e \in Range(SensorsOf(acall.mapping)) :
          /\ e.cfg.enabled = "no"
          /\ e.cfg.features # <<>>
          /\ e.name \in DOMAIN acall.processors
          /\ acall.processors[e.name].axis \notin DOMAIN acall.axes
    /\ Len(acall.calls) = 1
    /\ acall.log # <<>>

(***************************************************************************)
(* C8.  When several features of enabled sensors declare one axis, the     *)
(* value apply_mapping returns for the axis is the value of the feature    *)
(* that comes last in configuration order (sensors in declared order,      *)
(* features in declared order); it is that feature's value alone.          *)
(***************************************************************************)
\* The positions <<sensor index, feature index>> of the features of enabled
\* sensors that declare the axis.
AxisWriters(mapping, axis) ==
    {p \in (DOMAIN SensorsOf(mapping)) \X (1..MaxFeatures + 1) :
        /\ mapping.sensors[p[1]].cfg.enabled = "yes"
        /\ p[2] \in DOMAIN FeaturesOf(mapping.sensors[p[1]].cfg)
        /\ mapping.sensors[p[1]].cfg.features[p[2]].cfg.map_to.axis = axis}

Later(p, q) == p[1] > q[1] \/ (p[1] = q[1] /\ p[2] >= q[2])

\* What apply_mapping returns for the mapping that holds this feature only.
ValueAlone(frame, mapping, p) ==
    LET sensor == mapping.sensors[p[1]]
        feature == sensor.cfg.features[p[2]]
        alone == Mapping(TRUE, <<[name |-> sensor.name,
                                  cfg |-> Sensor("yes", TRUE, <<feature>>)]>>)
    IN  apply_mapping(frame, alone, <<>>, <<>>).axes[feature.cfg.map_to.axis]

C8_LastFeatureWinsAxis ==
    (acall.op = "applied" /\ acall.err = "ok" /\ acall.processors = <<>>) =>
        \A axis \in DOMAIN acall.axes :
            LET writers == AxisWriters(acall.mapping, axis)
            IN  /\ writers # {}
                /\ \E last \in writers :
                      /\ \A q \in writers : Later(last, q)
                      /\ acall.axes[axis] = ValueAlone(acall.frame, acall.mapping, last)

\* Two features of two sensors write different values to one axis and the
\* second one's value is returned.
C8_Witness ==
    /\ acall.op = "applied"
    /\ acall.processors = <<>>
    /\ Len(acall.log) = 2
    /\ acall.log[1].sensor # acall.log[2].sensor
    /\ acall.log[1].axis = acall.log[2].axis
    /\ acall.log[1].value # acall.log[2].value
    /\ acall.axes[acall.log[2].axis] = acall.log[2].value

(***************************************************************************)
(* C9.  A caller's processor for an enabled sensor S is called exactly     *)
(* once for S and the default feature loop is not run for S, so no axis is *)
(* written for a feature of S; every enabled sensor without a processor of *)
(* the caller gets the default loop, once.                                 *)
(***************************************************************************)
CallsOf(sensor_name, by) ==
    {i \in DOMAIN acall.calls :
        acall.calls[i].sensor = sensor_name /\ acall.calls[i].by = by}

WritesOf(sensor_name) ==
    {i \in DOMAIN acall.log : acall.log[i].sensor = sensor_name}

C9_OverrideOwnsSensor ==
    (acall.op = "applied" /\ acall.err = "ok") =>
        \A S \in EnabledSensorNames(acall.mapping) :
            IF S \in DOMAIN acall.processors
            THEN /\ Cardinality(CallsOf(S, "override")) = 1
                 /\ CallsOf(S, "default") = {}
                 /\ WritesOf(S) = {}
            ELSE /\ Cardinality(CallsOf(S, "default")) = 1
                 /\ CallsOf(S, "override") = {}
                 /\ Cardinality(WritesOf(S))
                      = Len(FeaturesOf(SensorCfgOf(acall.mapping, S)))

\* mic is enabled with features and has a processor of the caller, lidar is
\* enabled without one: the output holds the processor's axis and lidar's.
C9_Witness ==
    /\ acall.op = "applied"
    /\ EnabledSensorNames(acall.mapping) = {"mic", "lidar"}
    /\ DOMAIN acall.processors = {"mic"}
    /\ FeaturesOf(SensorCfgOf(acall.mapping, "mic")) # <<>>
    /\ "extra" \in DOMAIN acall.axes
    /\ acall.axes["extra"] = 7 * Unit
    /\ WritesOf("lidar") # {}
    /\ WritesOf("mic") = {}

(***************************************************************************)
(* Specification of the transform cache.  The cache starts empty and lives *)
(* across calls; every step is one _resolve_transform call or one          *)
(* apply_mapping call, on a feature whose transform is any of CacheSpecs.  *)
(***************************************************************************)
CacheSpecs ==
    {"", "identity", "clamp01", "softclip", " softclip ",
     "softclip(0.5, slope=2)", "inverse_exp(centers=[])",
     "inverse_exp", "not_a_real_transform", "softclip("}

CacheRawValues == {-Unit, (9 * Unit) \div 10, 3 * Unit}

CacheFeature(spec) ==
    Feature("", NoSource, spec, MapTo(TRUE, TRUE, "gain", NumRange(0, 2 * Unit)))

InitCache ==
    /\ vcall = NoVCall
    /\ rcall = NoRCall
    /\ acall = NoACall
    /\ tcall = NoTCall
    /\ cache = <<>>
    /\ pipeline = NoPipeline
    /\ pcall = NoPCall
    /\ threads = NoThreads
    /\ hcall = NoHCall
    /\ osc = NoOsc
    /\ capture = NoCapture
    /\ host = NoHost

\* _resolve_transform(feature_cfg)
CacheResolve ==
    /\ \E spec \in CacheSpecs :
          LET found == _resolve_transform(CacheFeature(spec), cache)
          IN  /\ tcall' = [op |-> "resolved", spec |-> spec, cacheBefore |-> cache,
                           err |-> found.err, tf |-> found.tf,
                           parses |-> found.parses, builds |-> found.builds]
              /\ cache' = found.cache
    /\ acall' = NoACall
    /\ UNCHANGED <<hcall, osc, capture, host, threads, vcall, rcall, pipeline, pcall>>

\* apply_mapping(frame, mapping) on a mapping of one feature
CacheApply ==
    /\ \E spec \in CacheSpecs :
       \E raw \in CacheRawValues :
          DoApply([k \in {"mic_rms"} |-> raw],
                  Mapping(TRUE, <<[name |-> "mic",
                                   cfg |-> Sensor("yes", TRUE,
                                             <<[name |-> "rms",
                                                cfg |-> CacheFeature(spec)]>>)]>>),
                  <<>>, 1)
    /\ tcall' = NoTCall
    /\ UNCHANGED <<hcall, osc, capture, host, threads, vcall, rcall, pipeline, pcall>>

NextCache == CacheResolve \/ CacheApply

SpecCache == InitCache /\ [][NextCache]_vars

(***************************************************************************)
(* C10.  Once a specification string is in the cache, resolving it again   *)
(* returns the cached function and runs neither the parser nor a factory;  *)
(* no call replaces or removes a cache entry; and apply_mapping returns    *)
(* what it returns on an empty cache.                                      *)
(***************************************************************************)
C10_CacheIsPureMemoization ==
    /\ (tcall.op = "resolved" /\ tcall.spec \in DOMAIN tcall.cacheBefore) =>
          /\ tcall.err = "ok"
          /\ tcall.tf = tcall.cacheBefore[tcall.spec]
          /\ tcall.parses = 0 /\ tcall.builds = 0
    /\ tcall.op = "resolved" =>
          \A s \in DOMAIN tcall.cacheBefore :
             s \in DOMAIN cache /\ cache[s] = tcall.cacheBefore[s]
    /\ acall.op = "applied" =>
          /\ \A s \in DOMAIN acall.cacheBefore :
                s \in DOMAIN cache /\ cache[s] = acall.cacheBefore[s]
          /\ LET spec == acall.mapping.sensors[1].cfg.features[1].cfg.transform
                 fresh == apply_mapping(acall.frame, acall.mapping,
                                        acall.processors, <<>>)
             IN  /\ fresh.err = acall.err
                 /\ acall.err = "ok" => fresh.axes = acall.axes
                 /\ spec \in DOMAIN acall.cacheBefore =>
                       acall.parses = 0 /\ acall.builds = 0

\* A second resolution of a cached string beside another cached string,
\* and an apply_mapping call served from the cache.
C10_Witness ==
    \/ /\ tcall.op = "resolved"
       /\ tcall.spec = "softclip(0.5, slope=2)"
       /\ DOMAIN tcall.cacheBefore = {"softclip(0.5, slope=2)", "clamp01"}
       /\ tcall.parses = 0
    \/ /\ acall.op = "applied"
       /\ acall.mapping.sensors[1].cfg.features[1].cfg.transform = " softclip "
       /\ " softclip " \in DOMAIN acall.cacheBefore
       /\ acall.err = "ok"
       /\ acall.parses = 0

(***************************************************************************)
(* MappingPipeline (roomlens/pipeline.py).  A document is what a caller    *)
(* passes as a mapping or what yaml.safe_load returns: a dict, or None for *)
(* an empty file.                                                          *)
(***************************************************************************)
DictDoc(mapping) == [isDict |-> TRUE, kind |-> "dict", mapping |-> mapping]
NoneDoc == [isDict |-> FALSE, kind |-> "none", mapping |-> Mapping(FALSE, <<>>)]
ListDoc == [isDict |-> FALSE, kind |-> "list", mapping |-> Mapping(FALSE, <<>>)]

\* validate_mapping_axes(mapping) on a document: None and a list have no .get
ValidateDoc(doc) ==
    IF doc.isDict THEN validate_mapping_axes(doc.mapping)
    ELSE [err |-> "AttributeError", names |-> <<>>]

PipelineMappings ==
    <<\* 1: mic.rms -> gain
      Mapping(TRUE, <<[name |-> "mic",
                       cfg |-> Sensor("yes", TRUE,
                         <<[name |-> "rms",
                            cfg |-> Feature("", NoSource, "",
                                      MapTo(TRUE, TRUE, "gain", NoRange))]>>)]>>),
      \* 2: lidar.level -> tone through a soft clip, mic disabled
      Mapping(TRUE, <<[name |-> "lidar",
                       cfg |-> Sensor("yes", TRUE,
                         <<[name |-> "level",
                            cfg |-> Feature("", NoSource, "softclip(0.5, slope=2)",
                                      MapTo(TRUE, TRUE, "tone",
                                            NumRange(0, 4 * Unit)))]>>)],
                      [name |-> "mic",
                       cfg |-> Sensor("no", TRUE,
                         <<[name |-> "rms",
                            cfg |-> Feature("", NoSource, "",
                                      MapTo(TRUE, TRUE, "gain", NoRange))]>>)]>>),
      \* 3: mic.rms without map_to.axis
      Mapping(TRUE, <<[name |-> "mic",
                       cfg |-> Sensor("yes", TRUE,
                         <<[name |-> "rms",
                            cfg |-> Feature("", NoSource, "",
                                      MapTo(TRUE, FALSE, "", NoRange))]>>)]>>),
      \* 4: a disabled sensor's feature without map_to
      Mapping(TRUE, <<[name |-> "lidar",
                       cfg |-> Sensor("yes", TRUE,
                         <<[name |-> "level",
                            cfg |-> Feature("", NoSource, "",
                                      MapTo(TRUE, TRUE, "tone", NoRange))]>>)],
                      [name |-> "mic",
                       cfg |-> Sensor("no", TRUE,
                         <<[name |-> "rms",
                            cfg |-> Feature("", NoSource, "",
                                      MapTo(FALSE, FALSE, "", NoRange))]>>)]>>),
      \* 5: no sensors key
      Mapping(FALSE, <<>>),
      \* 6: every axis declared, the transform names no factory
      Mapping(TRUE, <<[name |-> "mic",
                       cfg |-> Sensor("yes", TRUE,
                         <<[name |-> "rms",
                            cfg |-> Feature("", NoSource, "not_a_real_transform",
                                      MapTo(TRUE, TRUE, "gain", NoRange))]>>)]>>),
      \* 7: every axis declared, the transform does not parse
      Mapping(TRUE, <<[name |-> "mic",
                       cfg |-> Sensor("yes", TRUE,
                         <<[name |-> "rms",
                            cfg |-> Feature("", NoSource, "softclip(",
                                      MapTo(TRUE, TRUE, "gain", NoRange))]>>)]>>),
      \* 8: every axis declared, the factory rejects the arguments
      Mapping(TRUE, <<[name |-> "mic",
                       cfg |-> Sensor("yes", TRUE,
                         <<[name |-> "rms",
                            cfg |-> Feature("", NoSource, "identity(1)",
                                      MapTo(TRUE, TRUE, "gain", NoRange))]>>)]>>)>>

PipelineDocs == {DictDoc(PipelineMappings[i]) : i \in DOMAIN PipelineMappings} \cup {NoneDoc}

\* The files load_mapping may be pointed at.
Paths == {"good.yaml", "noaxis.yaml", "empty.yaml", "list.yaml", "missing.yaml"}

\* load_mapping(path): p.open raises OSError for a missing file,
\* yaml.safe_load returns the document.
load_mapping(path) ==
    CASE path = "good.yaml"   -> [err |-> "ok", doc |-> DictDoc(PipelineMappings[2])]
      [] path = "noaxis.yaml" -> [err |-> "ok", doc |-> DictDoc(PipelineMappings[4])]
      [] path = "empty.yaml"  -> [err |-> "ok", doc |-> NoneDoc]
      [] path = "list.yaml"   -> [err |-> "ok", doc |-> ListDoc]
      [] OTHER                -> [err |-> "OSError", doc |-> NoneDoc]

PipelineFrames ==
    {<<>>,
     [k \in {"mic_rms", "lidar_level", "t"} |->
        CASE k = "mic_rms" -> 300 [] k = "lidar_level" -> 900 [] k = "t" -> 12345],
     [k \in {"mic_rms"} |-> 2 * Unit]}

PipelineProcessors == {<<>>, [n \in {"lidar"} |-> Override("extra", 7 * Unit)]}

\* MappingPipeline(mapping=..., processors=..., osc_address=...): __init__
\* then __post_init__; _osc_client starts as None
NewPipelineAt(doc, processors, osc_address) ==
    LET v == ValidateDoc(doc)
    IN  IF v.err # "ok" THEN [err |-> v.err, pipeline |-> NoPipeline]
        ELSE [err |-> "ok",
              pipeline |-> [exists |-> TRUE, mapping |-> doc.mapping,
                            processors |-> processors,
                            osc_address |-> osc_address, client |-> NoClient]]

\* the same with the default osc_address
NewPipeline(doc, processors) == NewPipelineAt(doc, processors, "/roomlens")

\* MappingPipeline.update_mapping
update_mapping_assign_first(p, doc) ==
    [err |-> ValidateDoc(doc).err,
     pipeline |-> IF doc.isDict THEN [p EXCEPT !.mapping = doc.mapping] ELSE p]

update_mapping(p, doc) ==
    LET v == ValidateDoc(doc)
    IN  IF v.err # "ok" THEN [err |-> v.err, pipeline |-> p]
        ELSE [err |-> "ok", pipeline |-> [p EXCEPT !.mapping = doc.mapping]]

\* MappingPipeline.reload_from_yaml
reload_from_yaml(p, path) ==
    LET loaded == load_mapping(path)
    IN  IF loaded.err # "ok" THEN [err |-> loaded.err, pipeline |-> p]
        ELSE update_mapping(p, loaded.doc)

(***************************************************************************)
(* Specification of a MappingPipeline: construction, then any sequence of  *)
(* update_mapping, reload_from_yaml and process_frame calls.               *)
(***************************************************************************)
Init ==
    /\ vcall = NoVCall
    /\ rcall = NoRCall
    /\ acall = NoACall
    /\ tcall = NoTCall
    /\ cache = <<>>
    /\ pipeline = NoPipeline
    /\ pcall = NoPCall
    /\ threads = NoThreads
    /\ hcall = NoHCall
    /\ osc = NoOsc
    /\ capture = NoCapture
    /\ host = NoHost

\* MappingPipeline(mapping, processors)
Construct ==
    /\ ~pipeline.exists
    /\ \E doc \in PipelineDocs :
       \E processors \in PipelineProcessors :
          LET made == NewPipeline(doc, processors)
          IN  /\ pipeline' = made.pipeline
              /\ pcall' = [NoPCall EXCEPT !.op = "construct", !.doc = doc,
                                          !.before = pipeline, !.err = made.err]
    /\ UNCHANGED <<hcall, osc, capture, host, threads, vcall, rcall, acall, tcall, cache>>

\* MappingPipeline.from_yaml(path)
FromYaml ==
    /\ ~pipeline.exists
    /\ \E path \in Paths :
       \E processors \in PipelineProcessors :
          LET loaded == load_mapping(path)
              made == IF loaded.err # "ok"
                      THEN [err |-> loaded.err, pipeline |-> NoPipeline]
                      ELSE NewPipeline(loaded.doc, processors)
          IN  /\ pipeline' = made.pipeline
              /\ pcall' = [NoPCall EXCEPT !.op = "from_yaml", !.path = path,
                                          !.loaded = loaded.err,
                                          !.doc = loaded.doc,
                                          !.before = pipeline, !.err = made.err]
    /\ UNCHANGED <<hcall, osc, capture, host, threads, vcall, rcall, acall, tcall, cache>>

UpdateMapping ==
    /\ pipeline.exists
    /\ \E doc \in PipelineDocs :
          LET r == update_mapping(pipeline, doc)
          IN  /\ pipeline' = r.pipeline
              /\ pcall' = [NoPCall EXCEPT !.op = "update_mapping", !.doc = doc,
                                          !.before = pipeline, !.err = r.err]
    /\ UNCHANGED <<hcall, osc, capture, host, threads, vcall, rcall, acall, tcall, cache>>

ReloadFromYaml ==
    /\ pipeline.exists
    /\ \E path \in Paths :
          LET r == reload_from_yaml(pipeline, path)
          IN  /\ pipeline' = r.pipeline
              /\ pcall' = [NoPCall EXCEPT !.op = "reload_from_yaml", !.path = path,
                                          !.loaded = load_mapping(path).err,
                                          !.doc = load_mapping(path).doc,
                                          !.before = pipeline, !.err = r.err]
    /\ UNCHANGED <<hcall, osc, capture, host, threads, vcall, rcall, acall, tcall, cache>>

\* MappingPipeline.process_frame: the payload {"t": frame.get("t"), "axes":
\* apply_mapping(frame, self.mapping, processors=self.processors)}; t.has is
\* FALSE for a t of None.  The object is returned as the call leaves it.
process_frame_without_processors(p, frame, c) ==
    LET st == apply_mapping(frame, p.mapping, <<>>, c)
    IN  [err |-> st.err, cache |-> st.cache, pipeline |-> p,
         axes |-> IF st.err = "ok" THEN st.axes ELSE <<>>,
         t |-> IF st.err = "ok" /\ "t" \in DOMAIN frame
               THEN [has |-> TRUE, v |-> frame["t"]]
               ELSE [has |-> FALSE, v |-> 0]]

process_frame(p, frame, c) ==
    LET st == apply_mapping(frame, p.mapping, p.processors, c)
    IN  [err |-> st.err, cache |-> st.cache, pipeline |-> p,
         axes |-> IF st.err = "ok" THEN st.axes ELSE <<>>,
         t |-> IF st.err = "ok" /\ "t" \in DOMAIN frame
               THEN [has |-> TRUE, v |-> frame["t"]]
               ELSE [has |-> FALSE, v |-> 0]]

\* MappingPipeline.process_frame
ProcessFrame ==
    /\ pipeline.exists
    /\ \E frame \in PipelineFrames :
          LET r == process_frame(pipeline, frame, cache)
          IN  /\ cache' = r.cache
              /\ pipeline' = r.pipeline
              /\ pcall' = [NoPCall EXCEPT
                             !.op = "process_frame", !.frame = frame,
                             !.before = pipeline, !.after = r.pipeline,
                             !.err = r.err,
                             !.mapping = pipeline.mapping,
                             !.axes = r.axes,
                             !.t = r.t]
    /\ UNCHANGED <<hcall, osc, capture, host, threads, vcall, rcall, acall, tcall>>

Next == Construct \/ FromYaml \/ UpdateMapping \/ ReloadFromYaml \/ ProcessFrame

Spec == Init /\ [][Next]_vars

(***************************************************************************)
(* C2.  Every mapping process_frame evaluates has passed validation: a     *)
(* pipeline exists only with a mapping free of violators, a construction   *)
(* whose mapping fails validation leaves no pipeline, and an               *)
(* update_mapping (or reload) whose mapping fails validation raises and    *)
(* leaves the pipeline's mapping as it was.                                *)
(***************************************************************************)
FailsValidation(doc) == doc.isDict /\ Violators(doc.mapping) # {}

C2_OnlyValidatedMappingsAreEvaluated ==
    /\ pipeline.exists => Violators(pipeline.mapping) = {}
    /\ pcall.op = "process_frame" => Violators(pcall.mapping) = {}
    /\ (pcall.op \in {"construct", "from_yaml"} /\ FailsValidation(pcall.doc)) =>
          pcall.err = "ValueError" /\ ~pipeline.exists
    /\ (pcall.op \in {"update_mapping", "reload_from_yaml"}
            /\ FailsValidation(pcall.doc)) =>
          /\ pcall.err = "ValueError"
          /\ pipeline = pcall.before
          /\ pipeline.mapping = pcall.before.mapping

\* An update_mapping with a mapping whose disabled sensor lacks an axis is
\* refused and the pipeline keeps the mapping it held.
C2_Witness ==
    /\ pcall.op = "update_mapping"
    /\ pcall.doc = DictDoc(PipelineMappings[4])
    /\ pcall.err = "ValueError"
    /\ pipeline.exists
    /\ pipeline.mapping = PipelineMappings[2]

(***************************************************************************)
(* C11.  apply_mapping on a mapping with an enabled feature (with an axis) *)
(* whose transform names an unregistered factory raises ValueError and     *)
(* returns no axes; the failed call leaves the transform cache as it found *)
(* it, without an entry for the name, and the same call repeated raises    *)
(* the same error.                                                         *)
(***************************************************************************)
UnknownTransformCall ==
    /\ acall.op = "applied"
    /\ IsEnabled(acall.mapping.sensors[1].cfg)
    /\ AxisOf(acall.mapping.sensors[1].cfg.features[1].cfg) # ""
    /\ acall.mapping.sensors[1].cfg.features[1].cfg.transform = "not_a_real_transform"

C11_UnknownTransformRaisesRepeatably ==
    UnknownTransformCall =>
       /\ acall.err = "ValueError"
       /\ acall.axes = <<>>
       /\ cache = acall.cacheBefore
       /\ "not_a_real_transform" \notin DOMAIN cache

\* The second of two identical calls has raised again.
C11_Witness ==
    /\ UnknownTransformCall
    /\ acall.n = 2
    /\ acall.err = "ValueError"
    /\ acall.frame = [k \in {"lidar_level"} |-> Unit \div 2]

(***************************************************************************)
(* C12.  A defect in a transform specification (syntax, unregistered name, *)
(* rejected arguments) surfaces before frame processing: no pipeline holds *)
(* a mapping with such a feature, and no process_frame call raises because *)
(* of one.                                                                 *)
(***************************************************************************)
DefectiveTransform(feature_cfg) ==
    _resolve_transform(feature_cfg, <<>>).err # "ok"

HasTransformDefect(mapping) ==
    \E i \in DOMAIN SensorsOf(mapping) :
       \E j \in DOMAIN FeaturesOf(SensorsOf(mapping)[i].cfg) :
          DefectiveTransform(FeaturesOf(SensorsOf(mapping)[i].cfg)[j].cfg)

C12_TransformDefectsSurfaceBeforeFrames ==
    /\ pipeline.exists => ~HasTransformDefect(pipeline.mapping)
    /\ pcall.op = "process_frame" =>
          ~(HasTransformDefect(pcall.mapping) /\ pcall.err # "ok")

(***************************************************************************)
(* Specification of the enabled switch.  Init draws a mapping of one       *)
(* sensor (mic, tof or motion) whose block states enabled true, states it  *)
(* false or does not state it, with one feature, and a frame; apply_mapping*)
(* then runs once.                                                         *)
(***************************************************************************)
EnabledSensorChoices == {"mic", "tof", "motion"}
EnabledFeatureChoices == {"rms", "burst"}
EnabledFrameValues == {0, Unit \div 2, Unit}

InitEnabled ==
    /\ vcall = NoVCall
    /\ rcall = NoRCall
    /\ \E sensor_name \in EnabledSensorChoices :
       \E feature_name \in EnabledFeatureChoices :
       \E enabled \in EnabledFlags :
       \E keys \in SUBSET {"motion", "mic_rms"} :
       \E v \in EnabledFrameValues :
          /\ (keys = {}) => (v = 0)
          /\ acall = PendingApply(
                        [k \in keys |-> v],
                        Mapping(TRUE,
                          <<[name |-> sensor_name,
                             cfg |-> Sensor(enabled, TRUE,
                               <<[name |-> feature_name,
                                  cfg |-> Feature("", NoSource, "",
                                            MapTo(TRUE, TRUE, "attack",
                                                  NumRange(Unit, 0)))]>>)]>>),
                        <<>>)
    /\ tcall = NoTCall
    /\ cache = <<>>
    /\ pipeline = NoPipeline
    /\ pcall = NoPCall
    /\ threads = NoThreads
    /\ hcall = NoHCall
    /\ osc = NoOsc
    /\ capture = NoCapture
    /\ host = NoHost

EnabledApply ==
    /\ acall.op = "pending"
    /\ DoApply(acall.frame, acall.mapping, acall.processors, 1)
    /\ UNCHANGED <<hcall, osc, capture, host, threads, vcall, rcall, tcall, pipeline, pcall>>

NextEnabled == EnabledApply

SpecEnabled == InitEnabled /\ [][NextEnabled]_vars

(***************************************************************************)
(* C13.  A sensor block that does not state enabled is skipped by          *)
(* apply_mapping, except the block of the sensor named motion, which is    *)
(* processed.                                                              *)
(***************************************************************************)
C13_MotionDefaultsEnabled ==
    (acall.op = "applied" /\ acall.mapping.sensors[1].cfg.enabled = "absent") =>
       IF acall.mapping.sensors[1].name = "motion"
       THEN acall.calls # <<>> /\ DOMAIN acall.axes = {"attack"}
       ELSE acall.calls = <<>> /\ acall.axes = <<>>

(***************************************************************************)
(* C14.  Every malformed map_to.range (absent, not a list, a list whose    *)
(* length is not two, a two-element list with a non-numeric element) is    *)
(* evaluated as [0, 1]: apply_mapping does not raise and writes            *)
(* clamp01(T(raw)) for the feature.                                        *)
(***************************************************************************)
C14_MalformedRangeDefaultsToUnit ==
    (/\ acall.op = "applied"
     /\ IsEnabled(acall.mapping.sensors[1].cfg)
     /\ AxisOf(acall.mapping.sensors[1].cfg.features[1].cfg) # ""
     /\ ~DefectiveTransform(acall.mapping.sensors[1].cfg.features[1].cfg)
     /\ ~HasNumericPair(acall.mapping.sensors[1].cfg.features[1].cfg.map_to.range)) =>
        /\ acall.err = "ok"
        /\ Len(acall.log) = 1
        /\ LET t == ApplyTransform(acall.log[1].tf, acall.log[1].raw)
           IN  acall.axes = (acall.log[1].axis :>
                               (IF t < 0 THEN 0 ELSE IF t > Unit THEN Unit ELSE t))

(***************************************************************************)
(* Specification of frames with missing fields.  Init draws one of the     *)
(* validated, well-formed mappings of FrameMappings and a frame holding    *)
(* any subset of FrameKeys, every key present carrying the same number;    *)
(* apply_mapping then runs once, without caller processors.                *)
(***************************************************************************)
FrameMappings ==
    <<\* 1: table resolvers behind two transforms; tof is disabled
      Mapping(TRUE,
        <<[name |-> "mic",
           cfg |-> Sensor("yes", TRUE,
             <<[name |-> "rms",
                cfg |-> Feature("", NoSource, "log10_clamp",
                          MapTo(TRUE, TRUE, "gain", NumRange(0, 2 * Unit)))],
               [name |-> "spectral_centroid",
                cfg |-> Feature("", NoSource, "inverse_exp(centers=[2, 4], k=1.2)",
                          MapTo(TRUE, TRUE, "tone", NoRange))]>>)],
          [name |-> "tof",
           cfg |-> Sensor("no", TRUE,
             <<[name |-> "proximity",
                cfg |-> Feature("", NoSource, "",
                          MapTo(TRUE, TRUE, "near", NoRange))]>>)]>>),
      \* 2: frame_key, a source list and the naming fallback; motion.burst
      Mapping(TRUE,
        <<[name |-> "lidar",
           cfg |-> Sensor("yes", TRUE,
             <<[name |-> "level",
                cfg |-> Feature("", StrSource(<<"primary", "|", "fallback">>),
                          "softclip(0.5, slope=2)",
                          MapTo(TRUE, TRUE, "depth", NumRange(2 * Unit, -Unit)))],
               [name |-> "rms",
                cfg |-> Feature("fk", NoSource, "clamp01",
                          MapTo(TRUE, TRUE, "tone", ScalarRange))]>>)],
          [name |-> "motion",
           cfg |-> Sensor("yes", TRUE,
             <<[name |-> "burst",
                cfg |-> Feature("", NoSource, "",
                          MapTo(TRUE, TRUE, "attack", NumRange(Unit, 0)))]>>)]>>),
      \* 3: two features on one axis; a sensor silent about enabled; a
      \* sensor without features
      Mapping(TRUE,
        <<[name |-> "mic",
           cfg |-> Sensor("yes", TRUE,
             <<[name |-> "rms",
                cfg |-> Feature("", NoSource, "", MapTo(TRUE, TRUE, "gain", NoRange))],
               [name |-> "level",
                cfg |-> Feature("", NoSource, "identity",
                          MapTo(TRUE, TRUE, "gain", NumRange(0, 4 * Unit)))]>>)],
          [name |-> "lidar",
           cfg |-> Sensor("absent", TRUE,
             <<[name |-> "level",
                cfg |-> Feature("", NoSource, "",
                          MapTo(TRUE, TRUE, "depth", NoRange))]>>)],
          [name |-> "tof",
           cfg |-> Sensor("yes", FALSE, <<>>)]>>)>>

FrameKeys == {"mic_rms", "mic_sc", "primary", "fallback", "fk", "motion", "mic_level"}
FrameValues == {-3 * Unit, 0, (2 * Unit) \div 5, 50 * Unit}

InitFrames ==
    /\ vcall = NoVCall
    /\ rcall = NoRCall
    /\ \E m \in DOMAIN FrameMappings :
       \E keys \in SUBSET FrameKeys :
       \E v \in FrameValues :
          /\ validate_mapping_axes(FrameMappings[m]).err = "ok"
          /\ (keys = {}) => (v = 0)
          /\ acall = PendingApply([k \in keys |-> v], FrameMappings[m], <<>>)
    /\ tcall = NoTCall
    /\ cache = <<>>
    /\ pipeline = NoPipeline
    /\ pcall = NoPCall
    /\ threads = NoThreads
    /\ hcall = NoHCall
    /\ osc = NoOsc
    /\ capture = NoCapture
    /\ host = NoHost

FramesApply ==
    /\ acall.op = "pending"
    /\ DoApply(acall.frame, acall.mapping, acall.processors, 1)
    /\ UNCHANGED <<hcall, osc, capture, host, threads, vcall, rcall, tcall, pipeline, pcall>>

NextFrames == FramesApply

SpecFrames == InitFrames /\ [][NextFrames]_vars

(***************************************************************************)
(* C15.  For a validated mapping with well-formed transforms and ranges    *)
(* and any frame of numbers, the empty frame and frames missing any keys   *)
(* included, apply_mapping does not raise and the axis names of its output *)
(* are exactly the map_to.axis names of the features of enabled sensors,   *)
(* whatever the frame.                                                     *)
(***************************************************************************)
DeclaredAxes(mapping) ==
    UNION {{AxisOf(f.cfg) : f \in Range(FeaturesOf(e.cfg))} :
              e \in {x \in Range(SensorsOf(mapping)) : x.cfg.enabled = "yes"}}

C15_AxisKeysAreFrameIndependent ==
    acall.op = "applied" =>
       /\ acall.err = "ok"
       /\ DOMAIN acall.axes = DeclaredAxes(acall.mapping)

\* The empty frame, and a frame holding only a key no feature reads, give
\* every declared axis.
C15_Witness ==
    /\ acall.op = "applied"
    /\ acall.mapping = FrameMappings[2]
    /\ acall.frame = [k \in {"mic_level"} |-> 50 * Unit]
    /\ DOMAIN acall.axes = {"depth", "tone", "attack"}

(***************************************************************************)
(* C16.  load_mapping never returns to its caller a document that is not a *)
(* mapping (an empty document, a list): whenever from_yaml or              *)
(* reload_from_yaml got a document back from it, the document is a dict.   *)
(***************************************************************************)
C16_LoadRejectsNonMappings ==
    (pcall.op \in {"from_yaml", "reload_from_yaml"} /\ pcall.loaded = "ok") =>
        pcall.doc.isDict

(***************************************************************************)
(* Specification of update_mapping running concurrently with               *)
(* process_frame on one MappingPipeline.  The evaluator thread reads       *)
(* self.mapping and self.processors when it calls apply_mapping, then      *)
(* walks the sensors of that argument one at a time; the updater thread    *)
(* validates its argument and then rebinds self.mapping.  threads.held     *)
(* lists the mappings the pipeline has held.                               *)
(***************************************************************************)
SwapMappings ==
    <<Mapping(TRUE,
        <<[name |-> "mic",
           cfg |-> Sensor("yes", TRUE,
             <<[name |-> "rms",
                cfg |-> Feature("", NoSource, "", MapTo(TRUE, TRUE, "gain", NoRange))]>>)],
          [name |-> "lidar",
           cfg |-> Sensor("yes", TRUE,
             <<[name |-> "level",
                cfg |-> Feature("", NoSource, "", MapTo(TRUE, TRUE, "depth", NoRange))]>>)]>>),
      Mapping(TRUE,
        <<[name |-> "mic",
           cfg |-> Sensor("yes", TRUE,
             <<[name |-> "rms",
                cfg |-> Feature("", NoSource, "softclip(0.5, slope=2)",
                          MapTo(TRUE, TRUE, "tone", NumRange(0, 4 * Unit)))]>>)],
          [name |-> "lidar",
           cfg |-> Sensor("yes", TRUE,
             <<[name |-> "level",
                cfg |-> Feature("", NoSource, "",
                          MapTo(TRUE, TRUE, "width", NumRange(Unit, 0)))]>>)]>>),
      Mapping(TRUE,
        <<[name |-> "lidar",
           cfg |-> Sensor("yes", TRUE,
             <<[name |-> "level",
                cfg |-> Feature("", NoSource, "", MapTo(TRUE, TRUE, "gain", NoRange))]>>)]>>),
      Mapping(TRUE,
        <<[name |-> "mic",
           cfg |-> Sensor("yes", TRUE,
             <<[name |-> "rms",
                cfg |-> Feature("", NoSource, "", MapTo(TRUE, FALSE, "", NoRange))]>>)]>>)>>

SwapFrames ==
    {<<>>,
     [k \in {"mic_rms", "lidar_level"} |-> IF k = "mic_rms" THEN 300 ELSE 900]}

IdleEvaluator ==
    [pc |-> "start", passes |-> 0, frame |-> <<>>, mapping |-> Mapping(FALSE, <<>>),
     processors |-> <<>>, i |-> 0, st |-> StartState(<<>>)]

InitSwap ==
    /\ hcall = NoHCall
    /\ osc = NoOsc
    /\ capture = NoCapture
    /\ host = NoHost
    /\ vcall = NoVCall
    /\ rcall = NoRCall
    /\ acall = NoACall
    /\ tcall = NoTCall
    /\ cache = <<>>
    /\ pcall = NoPCall
    /\ \E m \in DOMAIN SwapMappings :
       \E frame \in SwapFrames :
          LET made == NewPipeline(DictDoc(SwapMappings[m]), <<>>)
          IN  /\ made.err = "ok"
              /\ pipeline = made.pipeline
              /\ threads = [kind |-> "swap",
                            ev |-> [IdleEvaluator EXCEPT !.frame = frame],
                            up |-> [pc |-> "idle", n |-> 0, doc |-> NoneDoc],
                            held |-> <<made.pipeline.mapping>>]

\* sensor_cfgs = mapping.get("sensors", {}): the sensors of the argument
\* apply_mapping was called with.
LoopSensorsReread(mapping, p) == SensorsOf(p.mapping)

LoopSensors(mapping, p) == SensorsOf(mapping)

\* process_frame: apply_mapping(frame, self.mapping, processors=self.processors)
\* evaluates its arguments and enters apply_mapping.
EvCall ==
    /\ threads.ev.pc \in {"start", "done"}
    /\ threads.ev.passes < MaxPasses
    /\ threads' = [threads EXCEPT
                      !.ev = [@ EXCEPT !.pc = "loop", !.passes = @ + 1,
                                       !.mapping = pipeline.mapping,
                                       !.processors = pipeline.processors,
                                       !.i = 1, !.st = StartState(cache)]]
    /\ UNCHANGED <<hcall, osc, capture, host, vcall, rcall, acall, tcall, cache, pipeline, pcall>>

\* One iteration of apply_mapping's sensor loop.
EvSensor ==
    /\ threads.ev.pc = "loop"
    /\ threads.ev.st.err = "ok"
    /\ threads.ev.i <= Len(LoopSensors(threads.ev.mapping, pipeline))
    /\ LET st == ApplySensors(
                    <<LoopSensors(threads.ev.mapping, pipeline)[threads.ev.i]>>,
                    threads.ev.frame, threads.ev.processors,
                    [threads.ev.st EXCEPT !.cache = cache])
       IN  /\ threads' = [threads EXCEPT !.ev = [@ EXCEPT !.i = @ + 1, !.st = st]]
           /\ cache' = st.cache
    /\ UNCHANGED <<hcall, osc, capture, host, vcall, rcall, acall, tcall, pipeline, pcall>>

\* apply_mapping returns (or raises) and process_frame builds the payload.
EvReturn ==
    /\ threads.ev.pc = "loop"
    /\ \/ threads.ev.st.err # "ok"
       \/ threads.ev.i > Len(LoopSensors(threads.ev.mapping, pipeline))
    /\ threads' = [threads EXCEPT !.ev = [@ EXCEPT !.pc = "done"]]
    /\ UNCHANGED <<hcall, osc, capture, host, vcall, rcall, acall, tcall, cache, pipeline, pcall>>

\* update_mapping(mapping): validate_mapping_axes(mapping)
UpValidate ==
    /\ threads.up.pc \in {"idle", "done", "raised"}
    /\ threads.up.n < MaxSwaps
    /\ \E m \in DOMAIN SwapMappings :
          LET doc == DictDoc(SwapMappings[m])
          IN  threads' = [threads EXCEPT
                            !.up = [pc |-> IF ValidateDoc(doc).err = "ok"
                                           THEN "assign" ELSE "raised",
                                    n |-> @.n + 1, doc |-> doc]]
    /\ UNCHANGED <<hcall, osc, capture, host, vcall, rcall, acall, tcall, cache, pipeline, pcall>>

\* update_mapping(mapping): self.mapping = mapping
UpAssign ==
    /\ threads.up.pc = "assign"
    /\ pipeline' = [pipeline EXCEPT !.mapping = threads.up.doc.mapping]
    /\ threads' = [threads EXCEPT !.up = [@ EXCEPT !.pc = "done"],
                                  !.held = Append(@, threads.up.doc.mapping)]
    /\ UNCHANGED <<hcall, osc, capture, host, vcall, rcall, acall, tcall, cache, pcall>>

NextSwap == EvCall \/ EvSensor \/ EvReturn \/ UpValidate \/ UpAssign

SpecSwap == InitSwap /\ [][NextSwap]_vars

(***************************************************************************)
(* C17.  Under every interleaving of update_mapping with process_frame, an *)
(* evaluation pass computes all its axes from one mapping the pipeline has *)
(* held (the one before a swap or the one after it): what the pass has     *)
(* written so far is a prefix of what apply_mapping writes for that        *)
(* mapping alone, and its result is that mapping's result.                 *)
(***************************************************************************)
PassOf(mapping) == apply_mapping(threads.ev.frame, mapping, <<>>, <<>>)

C17_PassSeesOneMapping ==
    threads.ev.pc \in {"loop", "done"} =>
       \E h \in 1..Len(threads.held) :
          LET whole == PassOf(threads.held[h])
          IN  /\ Len(threads.ev.st.log) <= Len(whole.log)
              /\ threads.ev.st.log = SubSeq(whole.log, 1, Len(threads.ev.st.log))
              /\ threads.ev.pc = "done" =>
                    /\ threads.ev.st.err = "ok"
                    /\ threads.ev.st.axes = whole.axes
                    /\ threads.ev.st.log = whole.log

\* A pass that began under the first mapping finished after the pipeline
\* was rebound to the second, and still returned the first mapping's axes.
C17_Witness ==
    /\ threads.ev.pc = "done"
    /\ Len(threads.held) = 2
    /\ threads.held[1] = SwapMappings[1]
    /\ pipeline.mapping = SwapMappings[2]
    /\ DOMAIN threads.ev.st.axes = {"gain", "depth"}
    /\ threads.ev.st.axes["depth"] = 900

(***************************************************************************)
(* Specification of two callers resolving transforms concurrently.  Each   *)
(* caller runs _resolve_transform on a string of RaceSpecs in three steps: *)
(* the cache lookup, the parse and construction, and the cache store.      *)
(***************************************************************************)
RaceSpecs ==
    {"softclip", " softclip ", "softclip(0.5, slope=2)",
     "inverse_exp(centers=[2, 4], k=1.2)", "not_a_real_transform"}

RaceInputs == {-Unit, 0, Unit \div 4, (3 * Unit) \div 4, (9 * Unit) \div 10, 3 * Unit}

Callers == {1, 2}

InitRace ==
    /\ hcall = NoHCall
    /\ osc = NoOsc
    /\ capture = NoCapture
    /\ host = NoHost
    /\ vcall = NoVCall
    /\ rcall = NoRCall
    /\ acall = NoACall
    /\ tcall = NoTCall
    /\ cache = <<>>
    /\ pipeline = NoPipeline
    /\ pcall = NoPCall
    /\ \E specs \in [Callers -> RaceSpecs] :
          threads = [kind |-> "race",
                     t |-> [c \in Callers |->
                              [pc |-> "lookup", spec |-> specs[c], err |-> "ok",
                               tf |-> _identity, built |-> FALSE]]]

\* _TRANSFORM_CACHE[transform_spec] = transform: the key of the store
StoreKeyByName(transform_spec, name) == name

StoreKey(transform_spec, name) == transform_spec

\* cached = _TRANSFORM_CACHE.get(transform_spec); if cached: return cached
RaceLookup(c) ==
    /\ threads.t[c].pc = "lookup"
    /\ threads' = [threads EXCEPT !.t[c] =
                      IF threads.t[c].spec \in DOMAIN cache
                      THEN [@ EXCEPT !.pc = "done", !.tf = cache[threads.t[c].spec]]
                      ELSE [@ EXCEPT !.pc = "build"]]
    /\ UNCHANGED <<hcall, osc, capture, host, vcall, rcall, acall, tcall, cache, pipeline, pcall>>

\* _parse_transform_spec, the factory lookup and factory(*args, **kwargs)
RaceBuild(c) ==
    /\ threads.t[c].pc = "build"
    /\ LET parsed == _parse_transform_spec(threads.t[c].spec)
           made == IF parsed.err # "ok" THEN Raised(parsed.err)
                   ELSE IF parsed.name \notin FactoryNames THEN Raised("ValueError")
                   ELSE CallFactory(parsed.name, parsed.args, parsed.kwargs)
       IN  threads' = [threads EXCEPT !.t[c] =
                         IF made.err # "ok"
                         THEN [@ EXCEPT !.pc = "raised", !.err = made.err]
                         ELSE [@ EXCEPT !.pc = "store", !.tf = made.tf,
                                        !.built = TRUE]]
    /\ UNCHANGED <<hcall, osc, capture, host, vcall, rcall, acall, tcall, cache, pipeline, pcall>>

\* _TRANSFORM_CACHE[transform_spec] = transform; return transform
RaceStore(c) ==
    /\ threads.t[c].pc = "store"
    /\ cache' = (StoreKey(threads.t[c].spec,
                          _parse_transform_spec(threads.t[c].spec).name)
                   :> threads.t[c].tf) @@ cache
    /\ threads' = [threads EXCEPT !.t[c] = [@ EXCEPT !.pc = "done"]]
    /\ UNCHANGED <<hcall, osc, capture, host, vcall, rcall, acall, tcall, pipeline, pcall>>

NextRace == \E c \in Callers : RaceLookup(c) \/ RaceBuild(c) \/ RaceStore(c)

SpecRace == InitRace /\ [][NextRace]_vars

(***************************************************************************)
(* C18.  When two callers resolve the same specification string            *)
(* concurrently, under every interleaving of their lookup, construction    *)
(* and store steps both end the same way; when they succeed, the functions *)
(* they received give the same output for the same input, and the cache    *)
(* ends with one entry, keyed by that string, that gives that output too.  *)
(***************************************************************************)
SameCurve(f, g) == \A x \in RaceInputs : ApplyTransform(f, x) = ApplyTransform(g, x)

C18_RacingResolutionsAgree ==
    (/\ threads.t[1].spec = threads.t[2].spec
     /\ \A c \in Callers : threads.t[c].pc \in {"done", "raised"}) =>
        /\ threads.t[1].pc = threads.t[2].pc
        /\ threads.t[1].err = threads.t[2].err
        /\ threads.t[1].pc = "done" =>
              /\ SameCurve(threads.t[1].tf, threads.t[2].tf)
              /\ DOMAIN cache = {threads.t[1].spec}
              /\ SameCurve(cache[threads.t[1].spec], threads.t[1].tf)
        /\ threads.t[1].pc = "raised" => cache = <<>>

\* Both callers missed the cache and each constructed its own copy.
C18_Witness ==
    /\ threads.t[1].spec = "softclip(0.5, slope=2)"
    /\ threads.t[2].spec = "softclip(0.5, slope=2)"
    /\ \A c \in Callers : threads.t[c].pc = "done" /\ threads.t[c].built
    /\ DOMAIN cache = {"softclip(0.5, slope=2)"}

(***************************************************************************)
(* Specification of the inverse_exp factory.  Init draws one of the        *)
(* inverse_exp specification strings and a raw value; apply_mapping then   *)
(* runs once on a mapping of one feature with that transform and the       *)
(* default range, so that the axis value is the transform's output.        *)
(***************************************************************************)
InverseExpSpecs ==
    {"inverse_exp", "inverse_exp(k=2)", "inverse_exp(centers=[1.0])",
     "inverse_exp(centers=[])", "inverse_exp(centers=[-1, 0])",
     "inverse_exp(centers=[], k=0)", "inverse_exp(centers=[2, 4], k=-3)",
     "inverse_exp(centers=[2, 4], k=1.2)"}

InverseExpInputs ==
    {-2 * Unit, -Unit \div 2, 0, Unit \div 10, Unit \div 4, Unit \div 2,
     (3 * Unit) \div 4, Unit - 1, Unit, Unit + 1, 2 * Unit, 3 * Unit, 5 * Unit}

InitFactory ==
    /\ vcall = NoVCall
    /\ rcall = NoRCall
    /\ \E spec \in InverseExpSpecs :
       \E raw \in InverseExpInputs :
          acall = PendingApply(
                     [k \in {"tof_near"} |-> raw],
                     Mapping(TRUE,
                       <<[name |-> "tof",
                          cfg |-> Sensor("yes", TRUE,
                            <<[name |-> "proximity",
                               cfg |-> Feature("", NoSource, spec,
                                         MapTo(TRUE, TRUE, "near", NoRange))]>>)]>>),
                     <<>>)
    /\ tcall = NoTCall
    /\ cache = <<>>
    /\ pipeline = NoPipeline
    /\ pcall = NoPCall
    /\ threads = NoThreads
    /\ hcall = NoHCall
    /\ osc = NoOsc
    /\ capture = NoCapture
    /\ host = NoHost

FactoryApply ==
    /\ acall.op = "pending"
    /\ DoApply(acall.frame, acall.mapping, acall.processors, 1)
    /\ UNCHANGED <<hcall, osc, capture, host, threads, vcall, rcall, tcall, pipeline, pcall>>

NextFactory == FactoryApply

SpecFactory == InitFactory /\ [][NextFactory]_vars

(***************************************************************************)
(* C19.  inverse_exp without a centers argument (bare, or with k only),    *)
(* with an empty centers list or with only non-positive centers constructs *)
(* and behaves as inverse_exp(centers=[1.0]) with the k it was given; a k  *)
(* that is zero or negative is replaced by a positive value.               *)
(***************************************************************************)
\* The curve of centers [1.0] and of the given centers, at the raw value.
UnitCentreValue(k) == InverseExpInner(<<Unit>>, k, acall.frame["tof_near"])
PairCentreValue(k) == InverseExpInner(<<2 * Unit, 4 * Unit>>, k, acall.frame["tof_near"])
PositiveKs == {Unit \div 2, Unit, 2 * Unit}

C19_InverseExpDefaults ==
    acall.op = "applied" =>
       LET spec == acall.mapping.sensors[1].cfg.features[1].cfg.transform
       IN  /\ spec \in {"inverse_exp", "inverse_exp(centers=[])",
                         "inverse_exp(centers=[-1, 0])"} =>
                 acall.err = "ok" /\ acall.axes = ("near" :> UnitCentreValue(Unit))
           /\ spec = "inverse_exp(k=2)" =>
                 acall.err = "ok" /\ acall.axes = ("near" :> UnitCentreValue(2 * Unit))
           /\ spec = "inverse_exp(centers=[], k=0)" =>
                 /\ acall.err = "ok"
                 /\ \E k \in PositiveKs : acall.axes = ("near" :> UnitCentreValue(k))
           /\ spec = "inverse_exp(centers=[2, 4], k=-3)" =>
                 /\ acall.err = "ok"
                 /\ \E k \in PositiveKs : acall.axes = ("near" :> PairCentreValue(k))

(***************************************************************************)
(* Specification of the order of the validation message.  Init draws a     *)
(* mapping of at most MaxSensors sensors among OrderSensorNames, each with *)
(* at most MaxFeatures features, none of which declares an axis;           *)
(* validate_mapping_axes then runs once.                                   *)
(***************************************************************************)
OrderSensorNames == {"mic", "mic-2", "mic2", "tof"}

InitOrder ==
    /\ \E ns \in DistinctSeqs(OrderSensorNames, MaxSensors) :
       \E fn \in [DOMAIN ns -> DistinctSeqs(ValFeatureNames, MaxFeatures)] :
       \E en \in [DOMAIN ns -> {"yes", "no"}] :
          vcall = [op |-> "pending",
                   mapping |-> Mapping(TRUE,
                     [i \in DOMAIN ns |->
                        [name |-> ns[i],
                         cfg |-> Sensor(en[i], TRUE,
                                   [j \in DOMAIN fn[i] |->
                                      [name |-> fn[i][j],
                                       cfg |-> Feature("", NoSource, "",
                                                 MapTo(TRUE, FALSE, "", NoRange))]])]]),
                   err |-> "ok", names |-> <<>>]
    /\ rcall = NoRCall
    /\ acall = NoACall
    /\ tcall = NoTCall
    /\ cache = <<>>
    /\ pipeline = NoPipeline
    /\ pcall = NoPCall
    /\ threads = NoThreads
    /\ hcall = NoHCall
    /\ osc = NoOsc
    /\ capture = NoCapture
    /\ host = NoHost

SpecOrder == InitOrder /\ [][NextValidate]_vars

(***************************************************************************)
(* C20.  The message of validate_mapping_axes lists the offending          *)
(* sensor.feature pairs ordered by sensor name first and by feature name   *)
(* second, for every set of sensor and feature names.                      *)
(***************************************************************************)
\* p comes before q: by sensor name, then by feature name.
PairLess(p, q) ==
    \/ LexLess(CodePoints(p[1]), CodePoints(q[1]))
    \/ p[1] = q[1] /\ LexLess(CodePoints(p[2]), CodePoints(q[2]))

C20_MessageOrderedBySensorThenFeature ==
    vcall.op = "validate" =>
       \A i, j \in DOMAIN vcall.names :
          i < j =>
             \E p, q \in Violators(vcall.mapping) :
                /\ vcall.names[i].text = p[1] \o "." \o p[2]
                /\ vcall.names[j].text = q[1] \o "." \o q[2]
                /\ PairLess(p, q)

(***************************************************************************)
(* The host's own apply_mapping (host/python/app.py): the sensors and      *)
(* features it knows, in the order it visits them, each with the frame     *)
(* keys it reads.                                                          *)
(***************************************************************************)
app_clamp01(x) == IF x < 0 THEN 0 ELSE IF x > Unit THEN Unit ELSE x

app_lerp(a, b, t) == a + ((b - a) * t) \div Unit

AppFeatures ==
    <<[sensor |-> "mic",    feature |-> "rms",               keys |-> <<"mic_rms">>],
      [sensor |-> "mic",    feature |-> "spectral_centroid", keys |-> <<"mic_sc">>],
      [sensor |-> "mic",    feature |-> "hf_rolloff",        keys |-> <<"hf", "mic_sc">>],
      [sensor |-> "tof",    feature |-> "motion_energy",     keys |-> <<"tof_motion">>],
      [sensor |-> "tof",    feature |-> "proximity",         keys |-> <<"tof_near">>],
      [sensor |-> "light",  feature |-> "lux",               keys |-> <<"lux">>],
      [sensor |-> "light",  feature |-> "flicker_hz",        keys |-> <<"flicker">>],
      [sensor |-> "motion", feature |-> "burst",             keys |-> <<"motion">>]>>

\* d.get(name, {}) on a dict kept as a sequence of entries
EntryNames(entries) == {entries[i].name : i \in DOMAIN entries}
EntryCfg(entries, name) == (CHOOSE e \in Range(entries) : e.name = name).cfg

\* mic.get("enabled", False) ... motion.get("enabled", True)
AppIsEnabled(sensor_name, sensor_cfg) ==
    \/ sensor_cfg.enabled = "yes"
    \/ sensor_name = "motion" /\ sensor_cfg.enabled = "absent"

\* t = clamp01(frame.get(key, 0.0)); for motion.burst
\* t = 1.0 if frame.get("motion", 0) else 0.0
AppValue(entry, frame) ==
    IF entry.sensor = "motion"
    THEN (IF FrameGet(frame, "motion", 0) # 0 THEN Unit ELSE 0)
    ELSE app_clamp01(FirstPresent(entry.keys, frame).value)

\* lo, hi = map_to["range"]; lerp(lo, hi, t)
AppRange(map_to) ==
    LET rng == map_to.range
    IN  IF ~rng.has THEN [err |-> "KeyError", lo |-> 0, hi |-> 0]
        ELSE IF ~rng.isList THEN [err |-> "TypeError", lo |-> 0, hi |-> 0]
        ELSE IF Len(rng.items) # 2 THEN [err |-> "ValueError", lo |-> 0, hi |-> 0]
        ELSE IF \E i \in 1..2 : rng.items[i].t # "num"
        THEN [err |-> "TypeError", lo |-> 0, hi |-> 0]
        ELSE [err |-> "ok", lo |-> rng.items[1].n, hi |-> rng.items[2].n]

\* One of the host's "if <feature> in <sensor>.get('features', {})" blocks.
AppFeature(entry, frame, sensors, st) ==
    IF st.err # "ok" \/ entry.sensor \notin EntryNames(sensors) THEN st
    ELSE LET sensor_cfg == EntryCfg(sensors, entry.sensor)
             features == FeaturesOf(sensor_cfg)
         IN  IF \/ ~AppIsEnabled(entry.sensor, sensor_cfg)
                \/ entry.feature \notin EntryNames(features)
             THEN st
             ELSE LET map_to == EntryCfg(features, entry.feature).map_to
                      axis == AxisOf(EntryCfg(features, entry.feature))
                      rng == AppRange(map_to)
                  IN  IF axis = "" THEN st
                      ELSE IF rng.err # "ok" THEN [st EXCEPT !.err = rng.err]
                      ELSE [st EXCEPT !.axes =
                              SetItem(@, axis,
                                      app_lerp(rng.lo, rng.hi, AppValue(entry, frame)))]

RECURSIVE AppFeaturesFrom(_, _, _, _)
AppFeaturesFrom(i, frame, sensors, st) ==
    IF i > Len(AppFeatures) THEN st
    ELSE AppFeaturesFrom(i + 1, frame, sensors,
                         AppFeature(AppFeatures[i], frame, sensors, st))

app_apply_mapping(frame, mapping) ==
    AppFeaturesFrom(1, frame, SensorsOf(mapping), [err |-> "ok", axes |-> <<>>])

(***************************************************************************)
(* Specification of the two evaluators side by side.  Init draws a mapping *)
(* over mic and motion in which every feature declares an axis, and a      *)
(* frame; then a MappingPipeline built on the mapping processes the frame, *)
(* and the host's apply_mapping maps the same frame with the same mapping. *)
(***************************************************************************)
MirrorFeatures(sensor_name) ==
    IF sensor_name = "mic" THEN {"rms", "hf_rolloff"} ELSE {"burst"}

MirrorFeatureCfgs ==
    {Feature("", NoSource, "", MapTo(TRUE, TRUE, "gain", NumRange(0, 2 * Unit))),
     Feature("", NoSource, "", MapTo(TRUE, TRUE, "gain", NoRange)),
     Feature("", NoSource, "softclip(0.5, slope=2)",
             MapTo(TRUE, TRUE, "tone", NumRange(Unit, 0)))}

MirrorFrames ==
    {<<>>,
     [k \in {"mic_rms", "motion"} |-> IF k = "motion" THEN 1 ELSE (9 * Unit) \div 10],
     [k \in {"mic_rms", "mic_hf", "hf"} |->
        CASE k = "mic_rms" -> 3 * Unit [] k = "mic_hf" -> 200 [] k = "hf" -> 700]}

InitMirror ==
    /\ vcall = NoVCall
    /\ rcall = NoRCall
    /\ \E ns \in DistinctSeqs({"mic", "motion"}, MaxSensors) :
       \E en \in [DOMAIN ns -> EnabledFlags] :
       \E fn \in [DOMAIN ns -> {"rms", "hf_rolloff", "burst"}] :
       \E fc \in [DOMAIN ns -> MirrorFeatureCfgs] :
       \E frame \in MirrorFrames :
          /\ \A i \in DOMAIN ns : fn[i] \in MirrorFeatures(ns[i])
          /\ LET mapping == Mapping(TRUE,
                               [i \in DOMAIN ns |->
                                  [name |-> ns[i],
                                   cfg |-> Sensor(en[i], TRUE,
                                             <<[name |-> fn[i], cfg |-> fc[i]]>>)]])
                 made == NewPipeline(DictDoc(mapping), <<>>)
             IN  /\ made.err = "ok"
                 /\ pipeline = made.pipeline
                 /\ acall = PendingApply(frame, mapping, <<>>)
    /\ tcall = NoTCall
    /\ cache = <<>>
    /\ pcall = NoPCall
    /\ threads = NoThreads
    /\ hcall = NoHCall
    /\ osc = NoOsc
    /\ capture = NoCapture
    /\ host = NoHost

\* pipeline.process_frame(frame)
MirrorPipeline ==
    /\ acall.op = "pending"
    /\ DoApply(acall.frame, pipeline.mapping, pipeline.processors, 1)
    /\ UNCHANGED <<hcall, osc, capture, host, threads, vcall, rcall, tcall, pipeline, pcall>>

\* app.apply_mapping(frame, mapping)
MirrorHost ==
    /\ hcall.op = "none"
    /\ LET r == app_apply_mapping(acall.frame, pipeline.mapping)
       IN  hcall' = [op |-> "applied", err |-> r.err,
                     axes |-> IF r.err = "ok" THEN r.axes ELSE <<>>]
    /\ UNCHANGED <<acall, cache, osc, capture, host, threads, vcall, rcall, tcall, pipeline, pcall>>

NextMirror == MirrorPipeline \/ MirrorHost

SpecMirror == InitMirror /\ [][NextMirror]_vars

(***************************************************************************)
(* C21.  For every validated mapping over the host's sensors and every     *)
(* frame, the axes of MappingPipeline.process_frame equal the axes of the  *)
(* host's apply_mapping, and one raises exactly when the other does.       *)
(***************************************************************************)
C21_PipelineMirrorsHost ==
    (acall.op = "applied" /\ hcall.op = "applied") =>
        /\ (acall.err = "ok") <=> (hcall.err = "ok")
        /\ acall.axes = hcall.axes


(***************************************************************************)
(* OSC integration of MappingPipeline.  A payload is {"t": ..., "axes":    *)
(* ...}: kind tells whether the axes key is absent, None or a dict, and a  *)
(* dict is the sequence of its items in insertion order.  An axis value is *)
(* a number tagged with its Python type.  A client is modelled by its      *)
(* identity and the messages it has received through send_message.         *)
(***************************************************************************)
MaxMessages == 1

AxisValue(t, n) == [t |-> t, n |-> n]
AxisItem(axis, value) == [axis |-> axis, value |-> value]
Payload(kind, axes) == [kind |-> kind, axes |-> axes]

OscPayloads ==
    {Payload("absent", <<>>),
     Payload("none", <<>>),
     Payload("dict", <<>>),
     Payload("dict", <<AxisItem("tone", AxisValue("float", 250)),
                       AxisItem("gain", AxisValue("int", 1 * Unit)),
                       AxisItem("gain_hi", AxisValue("float", 0)),
                       AxisItem("Bass", AxisValue("float", 0 - 2 * Unit))>>),
     Payload("dict", <<AxisItem("gain", AxisValue("float", 500))>>)}

OscAddresses == {"/roomlens", "/studio"}
OscDocs == {DictDoc(PipelineMappings[1]), DictDoc(PipelineMappings[2])}
OscClients == {NoClient, [id |-> "udp", received |-> <<>>]}

\* float(value) of a number
float(value) == AxisValue("float", value.n)

\* sorted(axes.items()): tuples compare by the axis name first, and the
\* names of one dict are distinct
sorted_items_unsorted(items) == items

RECURSIVE sorted_items(_)
sorted_items(items) ==
    IF items = <<>> THEN <<>>
    ELSE LET rest == sorted_items(Tail(items))
             x == Head(items)
             before == SelectSeq(rest, LAMBDA y :
                          LexLess(CodePoints(y.axis), CodePoints(x.axis)))
             after == SelectSeq(rest, LAMBDA y :
                          ~LexLess(CodePoints(y.axis), CodePoints(x.axis)))
         IN  before \o <<x>> \o after

\* args.extend([axis, float(value)]) for each item
RECURSIVE ExtendArgs(_)
ExtendArgs(items) ==
    IF items = <<>> THEN <<>>
    ELSE <<Head(items).axis, float(Head(items).value)>> \o ExtendArgs(Tail(items))

\* MappingPipeline.prepare_osc_message
prepare_osc_message(p, payload) ==
    LET axes == IF payload.kind = "dict" THEN payload.axes ELSE <<>>
    IN  [address |-> p.osc_address, args |-> ExtendArgs(sorted_items(axes))]

\* MappingPipeline.bind_osc_client
bind_osc_client(p, client) == [p EXCEPT !.client = client]

\* MappingPipeline.emit_osc: the value returned, the messages handed to
\* send_message during the call, and the object as the call leaves it
emit_osc(p, payload) ==
    IF p.client.id = "None"
    THEN [returned |-> "False", sent |-> <<>>, pipeline |-> p]
    ELSE LET m == prepare_osc_message(p, payload)
         IN  IF m.args = <<>>
             THEN [returned |-> "False", sent |-> <<>>, pipeline |-> p]
             ELSE [returned |-> "True", sent |-> <<m>>,
                   pipeline |-> [p EXCEPT !.client.received = Append(@, m)]]

(***************************************************************************)
(* Specification of a pipeline with its OSC client: construction with an   *)
(* osc_address, then any sequence of bind_osc_client, process_frame and    *)
(* emit_osc calls.                                                         *)
(***************************************************************************)
InitOsc == Init

\* MappingPipeline(mapping, processors, osc_address)
ConstructOsc ==
    /\ ~pipeline.exists
    /\ \E doc \in OscDocs :
       \E processors \in PipelineProcessors :
       \E osc_address \in OscAddresses :
          LET made == NewPipelineAt(doc, processors, osc_address)
          IN  /\ pipeline' = made.pipeline
              /\ pcall' = [NoPCall EXCEPT !.op = "construct", !.doc = doc,
                                          !.before = pipeline, !.err = made.err]
    /\ UNCHANGED <<hcall, osc, capture, host, threads, vcall, rcall, acall, tcall, cache>>

\* pipeline.bind_osc_client(client)
BindOscClient ==
    /\ pipeline.exists
    /\ \E client \in OscClients :
          /\ pipeline' = bind_osc_client(pipeline, client)
          /\ osc' = [NoOsc EXCEPT !.op = "bind_osc_client", !.before = pipeline,
                                  !.after = bind_osc_client(pipeline, client)]
    /\ UNCHANGED <<hcall, capture, host, threads, vcall, rcall, acall, tcall, cache, pcall>>

\* pipeline.emit_osc(payload)
EmitOsc ==
    /\ pipeline.exists
    /\ pipeline.client.id = "None" \/ Len(pipeline.client.received) < MaxMessages
    /\ \E payload \in OscPayloads :
          LET r == emit_osc(pipeline, payload)
          IN  /\ pipeline' = r.pipeline
              /\ osc' = [NoOsc EXCEPT !.op = "emit_osc", !.payload = payload,
                                      !.before = pipeline, !.after = r.pipeline,
                                      !.returned = r.returned, !.sent = r.sent]
    /\ UNCHANGED <<hcall, capture, host, threads, vcall, rcall, acall, tcall, cache, pcall>>

NextOsc == ConstructOsc \/ BindOscClient \/ ProcessFrame \/ EmitOsc

SpecOsc == InitOsc /\ [][NextOsc]_vars

(***************************************************************************)
(* C22.  process_frame returns a payload whose axes are those of           *)
(* apply_mapping(frame, pipeline.mapping, processors=pipeline.processors)  *)
(* and whose t is the frame's t (None when the frame has none); it raises  *)
(* exactly when apply_mapping raises, and it leaves the mapping, the       *)
(* processors, the address and the bound client with the messages it has   *)
(* received as they were.                                                  *)
(***************************************************************************)
C22_ProcessFramePayload ==
    pcall.op = "process_frame" =>
        LET direct == apply_mapping(pcall.frame, pcall.before.mapping,
                                    pcall.before.processors, <<>>)
        IN  /\ pcall.err = direct.err
            /\ pcall.err = "ok" =>
                  /\ pcall.axes = direct.axes
                  /\ pcall.t = IF "t" \in DOMAIN pcall.frame
                               THEN [has |-> TRUE, v |-> pcall.frame["t"]]
                               ELSE [has |-> FALSE, v |-> 0]
            /\ pcall.after = pcall.before

\* a frame with t goes through a pipeline with a caller's processor and a
\* bound client that has already received a message
C22_Witness ==
    /\ pcall.op = "process_frame"
    /\ pcall.err = "ok"
    /\ pcall.t.has
    /\ pcall.before.processors # <<>>
    /\ "extra" \in DOMAIN pcall.axes
    /\ pcall.before.client.received # <<>>

(***************************************************************************)
(* C23.  emit_osc returns True and hands exactly one message to the client *)
(* when a client is bound and the payload has at least one axis: the       *)
(* message goes to the pipeline's osc_address, its arguments are the axis  *)
(* name / float value pairs of the payload in ascending axis-name order,   *)
(* equal to prepare_osc_message(payload).  In every other case it returns  *)
(* False and the client receives nothing.                                  *)
(***************************************************************************)
C23_EmitOsc ==
    osc.op = "emit_osc" =>
        LET items == IF osc.payload.kind = "dict" THEN osc.payload.axes ELSE <<>>
            n == Len(items)
            should == osc.before.client.id # "None" /\ n > 0
        IN  /\ osc.returned = IF should THEN "True" ELSE "False"
            /\ Len(osc.sent) = IF should THEN 1 ELSE 0
            /\ osc.after.client.received = osc.before.client.received \o osc.sent
            /\ osc.after = [osc.before EXCEPT !.client.received = osc.after.client.received]
            /\ should =>
                  LET m == osc.sent[1]
                  IN  /\ m.address = osc.before.osc_address
                      /\ Len(m.args) = 2 * n
                      /\ \A e \in Range(items) :
                            \E i \in 1..n :
                               /\ m.args[2 * i - 1] = e.axis
                               /\ m.args[2 * i] = AxisValue("float", e.value.n)
                      /\ \A i \in 1..(n - 1) :
                            LexLess(CodePoints(m.args[2 * i - 1]),
                                    CodePoints(m.args[2 * i + 1]))
                      /\ m = prepare_osc_message(osc.before, osc.payload)

\* a bound client receives the four axes of a payload whose dict was filled
\* in another order, at an address that is not the default
C23_Witness ==
    /\ osc.op = "emit_osc"
    /\ osc.returned = "True"
    /\ Len(osc.payload.axes) = 4
    /\ osc.payload.axes[1].axis = "tone"
    /\ osc.sent[1].args[1] = "Bass"
    /\ osc.before.osc_address = "/studio"


(***************************************************************************)
(* tools/capture_logger.py: capture_stream(stdin, out_path,                *)
(* confirm_callback).  An input line is what json.loads makes of it: a     *)
(* JSONDecodeError, a JSON object with its keys, or another JSON value.    *)
(* capture holds the position in the function (pc), the lines of stdin and *)
(* how many were read, the answer of the callback, whether the directory   *)
(* and the file were created, the header written, the number of rows       *)
(* written, and the value returned or the exception raised (result).       *)
(***************************************************************************)
MaxLines == 2

BadLine == [json |-> "invalid", keys |-> {}]
ObjectLine(keys) == [json |-> "object", keys |-> keys]
ValueLine == [json |-> "number", keys |-> {}]

CaptureLines ==
    {BadLine, ValueLine, ObjectLine({}), ObjectLine({"t"}),
     ObjectLine({"t", "mic_rms"})}

RECURSIVE LinesUpTo(_)
LinesUpTo(n) ==
    IF n = 0 THEN {<<>>}
    ELSE LinesUpTo(n - 1) \cup
         {Append(ls, l) : ls \in {x \in LinesUpTo(n - 1) : Len(x) = n - 1},
                          l \in CaptureLines}

StartCapture(lines, dirExists) ==
    [pc |-> "confirm", lines |-> lines, read |-> 0, answered |-> FALSE,
     answer |-> FALSE, dirExists |-> dirExists, dirMade |-> FALSE,
     fileMade |-> FALSE, hasHeader |-> FALSE, fieldnames |-> {},
     rows |-> 0, result |-> "none"]

InitCapture ==
    /\ vcall = NoVCall
    /\ rcall = NoRCall
    /\ acall = NoACall
    /\ tcall = NoTCall
    /\ cache = <<>>
    /\ pipeline = NoPipeline
    /\ pcall = NoPCall
    /\ threads = NoThreads
    /\ hcall = NoHCall
    /\ osc = NoOsc
    /\ host = NoHost
    /\ \E lines \in LinesUpTo(MaxLines) :
       \E dirExists \in BOOLEAN :
          capture = StartCapture(lines, dirExists)

\* if not confirm_callback(out_path): return False
CaptureConfirm ==
    /\ capture.pc = "confirm"
    /\ \E answer \in BOOLEAN :
          capture' = IF answer
                     THEN [capture EXCEPT !.pc = "mkdir", !.answered = TRUE,
                                          !.answer = TRUE]
                     ELSE [capture EXCEPT !.pc = "done", !.answered = TRUE,
                                          !.answer = FALSE, !.result = "False"]
    /\ UNCHANGED <<hcall, osc, host, threads, vcall, rcall, acall, tcall, cache, pipeline, pcall>>

\* out_path.parent.mkdir(parents=True, exist_ok=True)
CaptureMkdir ==
    /\ capture.pc = "mkdir"
    /\ capture' = [capture EXCEPT !.pc = "open", !.dirExists = TRUE,
                                  !.dirMade = ~capture.dirExists]
    /\ UNCHANGED <<hcall, osc, host, threads, vcall, rcall, acall, tcall, cache, pipeline, pcall>>

\* with open(out_path, "w", newline="") as f
CaptureOpen ==
    /\ capture.pc = "open"
    /\ capture' = [capture EXCEPT !.pc = "lines", !.fileMade = TRUE]
    /\ UNCHANGED <<hcall, osc, host, threads, vcall, rcall, acall, tcall, cache, pipeline, pcall>>

\* one pass of the loop body on a line: the state it leaves.  row.keys() and
\* DictWriter.writerow need a dict; writerow raises ValueError for a key
\* outside fieldnames (extrasaction="raise").
capture_line(c, line) ==
    LET read == [c EXCEPT !.read = @ + 1]
    IN  IF line.json = "invalid" THEN read
        ELSE IF line.json # "object"
             THEN [read EXCEPT !.pc = "done", !.result = "AttributeError"]
        ELSE LET headed == IF c.hasHeader THEN read
                           ELSE [read EXCEPT !.hasHeader = TRUE,
                                             !.fieldnames = line.keys]
             IN  IF line.keys \subseteq headed.fieldnames
                 THEN [headed EXCEPT !.rows = @ + 1]
                 ELSE [headed EXCEPT !.pc = "done", !.result = "ValueError"]

\* for line in stdin: ...
CaptureLine ==
    /\ capture.pc = "lines"
    /\ capture.read < Len(capture.lines)
    /\ capture' = capture_line(capture, capture.lines[capture.read + 1])
    /\ UNCHANGED <<hcall, osc, host, threads, vcall, rcall, acall, tcall, cache, pipeline, pcall>>

\* return True
CaptureReturn ==
    /\ capture.pc = "lines"
    /\ capture.read = Len(capture.lines)
    /\ capture' = [capture EXCEPT !.pc = "done", !.result = "True"]
    /\ UNCHANGED <<hcall, osc, host, threads, vcall, rcall, acall, tcall, cache, pipeline, pcall>>

NextCapture ==
    CaptureConfirm \/ CaptureMkdir \/ CaptureOpen \/ CaptureLine \/ CaptureReturn

SpecCapture == InitCapture /\ [][NextCapture]_vars

(***************************************************************************)
(* C24.  capture_stream persists nothing without confirmation: after a     *)
(* false answer it returns False with no directory, no file and no line    *)
(* read; a directory, a file or a read line only exist after a true        *)
(* answer; and after a true answer it returns True.                        *)
(***************************************************************************)
C24_CaptureOnlyAfterConfirmation ==
    /\ (capture.pc = "done" /\ capture.answered /\ ~capture.answer) =>
          /\ capture.result = "False"
          /\ ~capture.dirMade /\ ~capture.fileMade /\ capture.read = 0
    /\ (capture.pc # "none" /\ (capture.dirMade \/ capture.fileMade \/ capture.read > 0)) =>
          (capture.answered /\ capture.answer)
    /\ (capture.pc = "done" /\ capture.answered /\ capture.answer) =>
          capture.result = "True"


(***************************************************************************)
(* Specification of the softclip curve.  Init draws a softclip             *)
(* specification with a threshold in [0, 1) and a slope above 1, and a raw *)
(* value; apply_mapping then runs once on a mapping of one feature with    *)
(* that transform and the default range, so that the axis value is the     *)
(* curve's output.                                                         *)
(***************************************************************************)
ClipSpecs ==
    {[spec |-> "softclip", th |-> (8 * Unit) \div 10],
     [spec |-> "softclip(threshold=0.5,slope=6)", th |-> Unit \div 2],
     [spec |-> "softclip(0.5, slope=2)", th |-> Unit \div 2],
     [spec |-> "softclip(0, slope=3)", th |-> 0],
     [spec |-> "softclip(0.25, slope=2)", th |-> Unit \div 4]}

ClipInputs ==
    {-Unit \div 2, 0, 1, Unit \div 10, Unit \div 4, Unit \div 4 + 1,
     (3 * Unit) \div 10, Unit \div 2, Unit \div 2 + 1, (6 * Unit) \div 10,
     (8 * Unit) \div 10, (8 * Unit) \div 10 + 1, (9 * Unit) \div 10,
     Unit - 1, Unit, 2 * Unit}

InitClip ==
    /\ vcall = NoVCall
    /\ rcall = NoRCall
    /\ \E c \in ClipSpecs :
       \E raw \in ClipInputs :
          acall = PendingApply(
                     [k \in {"mic_rms"} |-> raw],
                     Mapping(TRUE,
                       <<[name |-> "mic",
                          cfg |-> Sensor("yes", TRUE,
                            <<[name |-> "rms",
                               cfg |-> Feature("", NoSource, c.spec,
                                         MapTo(TRUE, TRUE, "gain", NoRange))]>>)]>>),
                     <<>>)
    /\ tcall = NoTCall
    /\ cache = <<>>
    /\ pipeline = NoPipeline
    /\ pcall = NoPCall
    /\ threads = NoThreads
    /\ hcall = NoHCall
    /\ osc = NoOsc
    /\ capture = NoCapture
    /\ host = NoHost

ClipApply ==
    /\ acall.op = "pending"
    /\ DoApply(acall.frame, acall.mapping, acall.processors, 1)
    /\ UNCHANGED <<hcall, osc, capture, host, threads, vcall, rcall, tcall, pipeline, pcall>>

NextClip == ClipApply

SpecClip == InitClip /\ [][NextClip]_vars

\* the threshold of the drawn specification, the raw value and the output
ClipSpec == FeaturesOf(acall.mapping.sensors[1].cfg)[1].cfg.transform
ClipThreshold == (CHOOSE c \in ClipSpecs : c.spec = ClipSpec).th
ClipInput == acall.frame["mic_rms"]
ClipOutput == acall.axes["gain"]

DecaySpecs ==
    {[spec |-> "inverse_exp(centers=[1.0])", largest |-> Unit],
     [spec |-> "inverse_exp(centers=[2, 4], k=1.2)", largest |-> 4 * Unit],
     [spec |-> "inverse_exp(centers=[2, 4], k=40)", largest |-> 4 * Unit],
     [spec |-> "inverse_exp(centers=[50, 120], k=1.2)", largest |-> 120 * Unit]}

DecayInputs ==
    {0 - 2 * Unit, 0, Unit \div 2, Unit - 1, Unit, Unit + Unit \div 2,
     2 * Unit, 3 * Unit, 4 * Unit - 1, 4 * Unit, 5 * Unit,
     30 * Unit, 80 * Unit, 120 * Unit, 160 * Unit}

InitDecay ==
    /\ vcall = NoVCall
    /\ rcall = NoRCall
    /\ \E c \in DecaySpecs :
       \E x1 \in DecayInputs :
       \E x2 \in {x \in DecayInputs : x1 < x} :
          acall = PendingApply(
                     [k \in {"x1", "x2"} |-> IF k = "x1" THEN x1 ELSE x2],
                     Mapping(TRUE,
                       <<[name |-> "tof",
                          cfg |-> Sensor("yes", TRUE,
                            <<[name |-> "first",
                               cfg |-> Feature("x1", NoSource, c.spec,
                                         MapTo(TRUE, TRUE, "at_x1", NoRange))],
                              [name |-> "second",
                               cfg |-> Feature("x2", NoSource, c.spec,
                                         MapTo(TRUE, TRUE, "at_x2", NoRange))]>>)]>>),
                     <<>>)
    /\ tcall = NoTCall
    /\ cache = <<>>
    /\ pipeline = NoPipeline
    /\ pcall = NoPCall
    /\ threads = NoThreads
    /\ hcall = NoHCall
    /\ osc = NoOsc
    /\ capture = NoCapture
    /\ host = NoHost

DecayApply ==
    /\ acall.op = "pending"
    /\ DoApply(acall.frame, acall.mapping, acall.processors, 1)
    /\ UNCHANGED <<hcall, osc, capture, host, threads, vcall, rcall, tcall, pipeline, pcall>>

NextDecay == DecayApply

SpecDecay == InitDecay /\ [][NextDecay]_vars

\* the drawn specification and its largest centre
DecaySpec == FeaturesOf(acall.mapping.sensors[1].cfg)[1].cfg.transform
DecayLargest == (CHOOSE c \in DecaySpecs : c.spec = DecaySpec).largest

(***************************************************************************)
(* C26.  inverse_exp with positive centers and k > 0 is strictly           *)
(* decreasing in its input for inputs below the largest centre, and        *)
(* returns exactly 0.0 for every input at or beyond the largest centre.    *)
(***************************************************************************)
C26_InverseExpStrictlyDecreasing ==
    acall.op = "applied" =>
        /\ acall.err = "ok"
        /\ acall.frame["x2"] < DecayLargest =>
              acall.axes["at_x2"] < acall.axes["at_x1"]
        /\ acall.frame["x1"] >= DecayLargest => acall.axes["at_x1"] = 0
        /\ acall.frame["x2"] >= DecayLargest => acall.axes["at_x2"] = 0

(***************************************************************************)
(* C26, amended.  The output never rises with the input, it is exactly 0.0 *)
(* for every input at or beyond the largest centre, and lies in [0, 1].    *)
(***************************************************************************)
C26_InverseExpDecreasing ==
    acall.op = "applied" =>
        /\ acall.err = "ok"
        /\ acall.axes["at_x2"] <= acall.axes["at_x1"]
        /\ acall.frame["x1"] >= DecayLargest => acall.axes["at_x1"] = 0
        /\ acall.frame["x2"] >= DecayLargest => acall.axes["at_x2"] = 0
        /\ 0 <= acall.axes["at_x2"] /\ acall.axes["at_x1"] <= Unit

\* inverse_exp(centers=[50, 120], k=1.2): the score at 30 is above the score
\* at 80, which is above zero
C26_Witness ==
    /\ acall.op = "applied"
    /\ DecaySpec = "inverse_exp(centers=[50, 120], k=1.2)"
    /\ acall.frame["x1"] = 30 * Unit
    /\ acall.frame["x2"] = 80 * Unit
    /\ acall.axes["at_x1"] > acall.axes["at_x2"]
    /\ acall.axes["at_x2"] > 0


(***************************************************************************)
(* host/python/app.py: main's serial setup and frame loop.  host holds the *)
(* position in main (pc), the environment (whether import serial worked,   *)
(* the ports the OS lists, whether serial.Serial() succeeds), the          *)
(* arguments (--demo as given, --port), args.demo as main rewrites it,     *)
(* ser, and the history of the loop: iterations, frames from demo_frame,   *)
(* calls of ser.readline and frames parsed from serial lines.  "" stands   *)
(* for a port of None.                                                     *)
(***************************************************************************)
MaxIterations == 3

Port(device, description) == [device |-> device, description |-> description]

HostPortLists ==
    {<<>>,
     <<Port("/dev/ttyS0", "n/a")>>,
     <<Port("/dev/ttyS0", "n/a"), Port("/dev/ttyACM0", "USB Serial")>>,
     <<Port("COM3", "n/a"), Port("COM4", "Teensy")>>}

HostPortArgs == {"auto", "/dev/ttyUSB0", ""}

\* "Teensy" in p.description or "ttyACM" in p.device or "tty.usbmodem" in p.device
LooksLikeTeensy(p) == p.description = "Teensy" \/ p.device = "/dev/ttyACM0"

\* find_serial()
find_serial(serial_module, ports) ==
    IF ~serial_module THEN ""
    ELSE LET hits == SelectSeq(ports, LooksLikeTeensy)
         IN  IF hits # <<>> THEN hits[1].device
             ELSE IF ports # <<>> THEN ports[1].device ELSE ""

StartHost(demo_flag, serial_module, port_arg, ports, open_ok) ==
    [pc |-> "setup", demo_flag |-> demo_flag, serial_module |-> serial_module,
     port_arg |-> port_arg, ports |-> ports, open_ok |-> open_ok,
     args_demo |-> demo_flag, port |-> "", ser |-> "None",
     iterations |-> 0, demo_frames |-> 0, serial_reads |-> 0,
     serial_frames |-> 0]

InitHost ==
    /\ vcall = NoVCall
    /\ rcall = NoRCall
    /\ acall = NoACall
    /\ tcall = NoTCall
    /\ cache = <<>>
    /\ pipeline = NoPipeline
    /\ pcall = NoPCall
    /\ threads = NoThreads
    /\ hcall = NoHCall
    /\ osc = NoOsc
    /\ capture = NoCapture
    /\ \E demo_flag \in BOOLEAN :
       \E serial_module \in BOOLEAN :
       \E port_arg \in HostPortArgs :
       \E ports \in HostPortLists :
       \E open_ok \in BOOLEAN :
          host = StartHost(demo_flag, serial_module, port_arg, ports, open_ok)

\* main: ser = None; if not args.demo and serial is not None: ...
serial_setup(h) ==
    IF ~h.args_demo /\ h.serial_module
    THEN LET port == IF h.port_arg = "auto"
                     THEN find_serial(h.serial_module, h.ports)
                     ELSE h.port_arg
         IN  IF port # ""
             THEN IF h.open_ok
                  THEN [h EXCEPT !.port = port, !.ser = "Serial"]
                  ELSE [h EXCEPT !.port = port, !.args_demo = TRUE]
             ELSE [h EXCEPT !.args_demo = TRUE]
    ELSE h

\* main: if args.demo or ser is None
takes_demo_frame_flag_only(h) == h.args_demo

takes_demo_frame(h) == h.args_demo \/ h.ser = "None"

\* main, serial setup
HostSetup ==
    /\ host.pc = "setup"
    /\ host' = [serial_setup(host) EXCEPT !.pc = "loop"]
    /\ UNCHANGED <<hcall, osc, capture, threads, vcall, rcall, acall, tcall, cache, pipeline, pcall>>

\* one pass of the loop through frame = demo_frame(t)
HostDemoFrame ==
    /\ host.pc = "loop"
    /\ host.iterations < MaxIterations
    /\ takes_demo_frame(host)
    /\ host' = [host EXCEPT !.iterations = @ + 1, !.demo_frames = @ + 1]
    /\ UNCHANGED <<hcall, osc, capture, threads, vcall, rcall, acall, tcall, cache, pipeline, pcall>>

\* one pass of the loop through ser.readline(): an empty line (timeout) and
\* a line that is not JSON go back to the top of the loop without a frame
HostSerialRead ==
    /\ host.pc = "loop"
    /\ host.iterations < MaxIterations
    /\ ~takes_demo_frame(host)
    /\ \E line \in {"", "garbage", "frame"} :
          host' = [host EXCEPT !.iterations = @ + 1, !.serial_reads = @ + 1,
                               !.serial_frames = IF line = "frame" THEN @ + 1 ELSE @]
    /\ UNCHANGED <<hcall, osc, capture, threads, vcall, rcall, acall, tcall, cache, pipeline, pcall>>

NextHost == HostSetup \/ HostDemoFrame \/ HostSerialRead

SpecHost == InitHost /\ [][NextHost]_vars

\* the four conditions of the serial link: --demo not given, pyserial
\* importable, a port found or given, and the port opened
HostPortWanted ==
    IF host.port_arg = "auto" THEN find_serial(host.serial_module, host.ports)
    ELSE host.port_arg
HostSerialUsable ==
    /\ ~host.demo_flag
    /\ host.serial_module
    /\ HostPortWanted # ""
    /\ host.open_ok

(***************************************************************************)
(* C27.  The host reads the serial link only when --demo is not set,       *)
(* pyserial is importable, a port was found or given and opening it        *)
(* succeeded, and then no frame comes from the demo generator; in every    *)
(* other case every frame comes from the demo generator, and a host that   *)
(* has produced a demo frame has not read and does not read from serial.   *)
(***************************************************************************)
C27_SerialOnlyWhenUsable ==
    host.pc = "loop" =>
        /\ (host.serial_reads > 0 \/ host.serial_frames > 0) => HostSerialUsable
        /\ HostSerialUsable =>
              (host.demo_frames = 0 /\ host.serial_reads = host.iterations)
        /\ ~HostSerialUsable =>
              /\ host.demo_frames = host.iterations
              /\ host.serial_reads = 0
              /\ host.serial_frames = 0
        /\ ~(host.demo_frames > 0 /\ host.serial_reads > 0)
        /\ (host.args_demo /\ ~host.demo_flag) => host.ser = "None"

\* the port was found by find_serial but did not open: main set args.demo
\* and every pass of the loop took a demo frame
C27_Witness ==
    /\ host.pc = "loop"
    /\ ~host.demo_flag
    /\ host.serial_module
    /\ host.port_arg = "auto"
    /\ host.port = "COM4"
    /\ ~host.open_ok
    /\ host.args_demo
    /\ host.demo_frames = MaxIterations
    /\ host.serial_reads = 0


(***************************************************************************)
(* Specification of apply_mapping on a mapping that validation would       *)
(* reject.  Init draws an enabled sensor with two features: one without a  *)
(* usable map_to.axis (map_to absent, axis absent or axis empty) whose     *)
(* transform and range may be invalid, and one that declares an axis,      *)
(* placed before or after it; apply_mapping then runs once.                *)
(***************************************************************************)
SkipMapTos ==
    {MapTo(FALSE, FALSE, "", NoRange), MapTo(TRUE, FALSE, "", NoRange),
     MapTo(TRUE, TRUE, "", NoRange), MapTo(TRUE, FALSE, "", ScalarRange),
     MapTo(TRUE, TRUE, "", ListRange(<<RangeItem("num", 0), RangeItem("str", 0)>>))}

SkipTransforms ==
    {"", "clamp01", "softclip", "not_a_real_transform", "softclip(", "identity(1)"}

OtherTransforms == {"", "softclip(0.5, slope=2)"}

SkipFrames ==
    {<<>>,
     [k \in {"lidar_level", "x"} |-> IF k = "x" THEN (9 * Unit) \div 10 ELSE Unit \div 2],
     [k \in {"level"} |-> 3 * Unit]}

InitSkip ==
    /\ vcall = NoVCall
    /\ rcall = NoRCall
    /\ \E map_to \in SkipMapTos :
       \E tr \in SkipTransforms :
       \E other \in OtherTransforms :
       \E first \in BOOLEAN :
       \E frame \in SkipFrames :
          LET skipped == [name |-> "level",
                          cfg |-> Feature("", NoSource, tr, map_to)]
              kept == [name |-> "reach",
                       cfg |-> Feature("x", NoSource, other,
                                 MapTo(TRUE, TRUE, "gain", NumRange(0, 4 * Unit)))]
          IN  acall = PendingApply(
                         frame,
                         Mapping(TRUE,
                           <<[name |-> "lidar",
                              cfg |-> Sensor("yes", TRUE,
                                        IF first THEN <<skipped, kept>>
                                        ELSE <<kept, skipped>>)]>>),
                         <<>>)
    /\ tcall = NoTCall
    /\ cache = <<>>
    /\ pipeline = NoPipeline
    /\ pcall = NoPCall
    /\ threads = NoThreads
    /\ hcall = NoHCall
    /\ osc = NoOsc
    /\ capture = NoCapture
    /\ host = NoHost

SkipApply ==
    /\ acall.op = "pending"
    /\ DoApply(acall.frame, acall.mapping, acall.processors, 1)
    /\ UNCHANGED <<hcall, osc, capture, host, threads, vcall, rcall, tcall, pipeline, pcall>>

NextSkip == SkipApply

SpecSkip == InitSkip /\ [][NextSkip]_vars

\* the drawn mapping without the features that lack an axis
RECURSIVE WithoutAxisless(_)
WithoutAxisless(sensors) ==
    IF sensors = <<>> THEN <<>>
    ELSE <<[name |-> Head(sensors).name,
            cfg |-> [Head(sensors).cfg EXCEPT
                       !.features = SelectSeq(@, LAMBDA f : AxisOf(f.cfg) # "")]]>>
         \o WithoutAxisless(Tail(sensors))

SkippedFeature == FeatureCfgOf(acall.mapping, "lidar", "level")

(***************************************************************************)
(* C28.  apply_mapping on an unvalidated mapping skips a feature of an     *)
(* enabled sensor whose map_to.axis is missing or empty: no error is       *)
(* raised, nothing is written for that feature, its transform is neither   *)
(* parsed nor built nor cached (also when it is invalid), and the axes,    *)
(* the writes and the cache are those of the same mapping without the      *)
(* feature.                                                                *)
(***************************************************************************)
C28_AxislessFeatureSkipped ==
    acall.op = "applied" =>
        LET without == apply_mapping(acall.frame,
                          Mapping(TRUE, WithoutAxisless(acall.mapping.sensors)),
                          acall.processors, acall.cacheBefore)
        IN  /\ acall.err = "ok"
            /\ acall.axes = without.axes
            /\ acall.log = without.log
            /\ \A i \in DOMAIN acall.log : acall.log[i].feature # "level"
            /\ DOMAIN acall.axes \subseteq {"gain"}
            /\ acall.parses = without.parses
            /\ acall.builds = without.builds
            /\ cache = without.cache
            /\ SkippedFeature.transform \notin DOMAIN cache

\* the feature without an axis comes first and names no factory; the other
\* feature is written through a transform that enters the cache
C28_Witness ==
    /\ acall.op = "applied"
    /\ acall.mapping.sensors[1].cfg.features[1].name = "level"
    /\ SkippedFeature.transform = "not_a_real_transform"
    /\ SkippedFeature.map_to.has
    /\ acall.err = "ok"
    /\ DOMAIN acall.axes = {"gain"}
    /\ DOMAIN cache = {"softclip(0.5, slope=2)"}

====
